---------------------------- MODULE Spec2Model ----------------------------
(***************************************************************************)
(* histop: shell-history command frequency analyzer.                       *)
(*                                                                         *)
(* A string is a sequence of one-character strings, so that the byte-wise   *)
(* scans of the source (whitespace skipping, trimming, searching, slicing) *)
(* are computed and not assumed.  Option<T> is a sequence of length at most *)
(* one: None is << >> and Some(x) is << x >>.                              *)
(***************************************************************************)
EXTENDS Integers, Sequences, FiniteSets, TLC

VARIABLES
    cmd,          \* get_first_word: the stage string passed in
    filtered,     \* get_first_word: the FilterSet passed in
    result,       \* get_first_word: the returned Option<&str>
    tpc,          \* "idle" | "ready" | "done"
    reader,       \* the Record Reader in use
    ignore,       \* the caller's ignore list
    no_hist,      \* the caller's no_hist flag
    filtered_commands, \* the FilterSet built by count_from_file
    skip,         \* Shell reader: the skip flag of process_line
    current_cmd,  \* Fish reader: the in-progress command
    cmd_count,    \* the FrequencyMap
    nread,        \* physical lines read so far
    last_line,    \* the physical line read last
    extracted,    \* the texts handed to count_commands so far, with multiplicity
    ipc,          \* "idle" | "reading" | "done" | "error"
    split_input,  \* SplitCommands: the line given to new()
    split_remaining, \* SplitCommands: the field remaining
    yielded,      \* SplitCommands: the items returned so far, in order
    nones,        \* SplitCommands: how many times next() returned None
    spc,          \* "idle" | "iterating"
    fish_score,   \* detect_history_format: fish_score
    shell_score,  \* detect_history_format: shell_score
    inspected,    \* detect_history_format: inspected
    dline,        \* detect_history_format: the physical line read last
    dread,        \* detect_history_format: physical lines read so far
    format,       \* detect_history_format: the returned HistoryFormat
    dlines,       \* detect_history_format: the physical lines read, with multiplicity
    dpath,        \* detect_history_format: path
    dpc,          \* "idle" | "scanning" | "decided"
    file_bytes,   \* shell.rs: the bytes of the history file
    bytes_rest,   \* count_from_bytes: what bytes.split has not yielded yet, None at its end
    bytes_skip,   \* count_from_bytes: skip
    bytes_count,  \* count_from_bytes: cmd_count
    reader_rest,  \* count_from_reader: what the reader has not returned yet
    reader_skip,  \* count_from_reader: skip
    reader_count, \* count_from_reader: cmd_count
    ppc,          \* "idle" | "bytes" | "reader" | "done"
    items,        \* render_bars: the values of items, in order
    config_size,  \* render_bars: config.size
    show_percentage, \* render_bars: config.show_percentage
    show_cumulative, \* render_bars: config.show_cumulative
    item_index,   \* render_bars: how many items were rendered
    inv_cumu,     \* render_bars: inv_cumu_perc, in units of total / 100
    unfilled_count,   \* render_bar_segment: unfilled_count of the last item
    semifilled_count, \* render_bar_segment: semifilled_count of the last item
    filled_count,     \* render_bar_segment: filled_count of the last item
    bar_str,      \* render_bars: bar_str of the last item
    bpc,          \* "idle" | "rendering" | "returned" | "panic"
    \* utils.rs get_first_word
    utils_cmd,          \* cmd: the command text
    utils_filtered,     \* filtered: the words to pass over
    track_subcommands,  \* whether a tool keeps its subcommand
    utils_key,          \* the returned String
    upc,          \* "idle" | "ready" | "done"
    \* app/mod.rs run: filter_and_sort_commands, output_limit
    command_counts,     \* HashMap<String, usize>
    run_more_than,      \* config.more_than
    run_all,            \* config.all
    run_count,          \* config.count
    commands,           \* Vec<RankedCommand>
    shown_rows,         \* n, the rows handed to write_output
    rpc,          \* "idle" | "loaded" | "ranked" | "limited"
    \* Config::from_args
    args,               \* env::args() after the program name
    fs_config,          \* what FileConfig::load gives for the file F
    default_config,     \* FileConfig::load_default(): None or Some(file config)
    arg_i,              \* i, counted from 1 at the first argument
    cli_overrides,      \* interface/cli.rs: CliOverrides
    config,             \* Config
    cpc           \* "idle" | "parsing" | "done" | "failed"

tokVars == <<cmd, filtered, result, tpc>>

ingestVars ==
    <<reader, ignore, no_hist, filtered_commands, skip, current_cmd, cmd_count, nread,
      last_line, extracted, ipc>>

splitVars == <<split_input, split_remaining, yielded, nones, spc>>

detectVars == <<fish_score, shell_score, inspected, dline, dread, format, dlines, dpath, dpc>>

pathVars ==
    <<file_bytes, bytes_rest, bytes_skip, bytes_count, reader_rest, reader_skip,
      reader_count, ppc>>

barVars ==
    <<items, config_size, show_percentage, show_cumulative, item_index, inv_cumu,
      unfilled_count, semifilled_count, filled_count, bar_str, bpc>>

subVars == <<utils_cmd, utils_filtered, track_subcommands, utils_key, upc>>

rankVars ==
    <<command_counts, run_more_than, run_all, run_count, commands, shown_rows, rpc>>

cliVars == <<args, fs_config, default_config, arg_i, cli_overrides, config, cpc>>

vars ==
    <<tokVars, ingestVars, splitVars, detectVars, pathVars, barVars, subVars, rankVars,
      cliVars>>

None == << >>
Some(x) == << x >>

-----------------------------------------------------------------------------
(* Bounds of the model. *)

MaxWords == 2

MaxLines == 4

MaxSplitLen == 4

MaxNones == 2

MaxDetectLines == 4

MaxSkippedLines == 1

MaxFileLines == 2

MaxItems == 3

MaxValue == 3

MaxBarSize == 4

\* words in a command handed to utils.rs get_first_word
MaxSubWords == 3

\* largest count of a command in the map handed to filter_and_sort_commands
MaxCommandCount == 2

\* largest config.count handed to output_limit
MaxRows == 3

\* flags, each with its value, on a command line
MaxArgs == 3

-----------------------------------------------------------------------------
(* Words used to build inputs. *)

w_sudo == <<"s", "u", "d", "o">>
w_doas == <<"d", "o", "a", "s">>
w_apt == <<"a", "p", "t">>
w_grep == <<"g", "r", "e", "p">>
w_ls == <<"l", "s">>
w_git == <<"g", "i", "t">>
w_cd == <<"c", "d">>
w_foo == <<"f", "o", "o">>
w_systemctl == <<"s", "y", "s", "t", "e", "m", "c", "t", "l">>
w_dashdash == <<"-", "-">>

SP == <<" ">>

RECURSIVE Join(_)
Join(ws) ==
    IF ws = << >> THEN << >>
    ELSE IF Len(ws) = 1 THEN ws[1]
    ELSE ws[1] \o SP \o Join(Tail(ws))

-----------------------------------------------------------------------------
(* src/shared/command_parse.rs: get_first_word *)

is_ascii_whitespace(b) == b \in {" ", "\t", "\n", "\f", "\r"}

starts_with(s, c) == s # << >> /\ s[1] = c

RECURSIVE skip_whitespace(_, _)
skip_whitespace(bytes, i) ==
    IF i <= Len(bytes) /\ is_ascii_whitespace(bytes[i])
    THEN skip_whitespace(bytes, i + 1)
    ELSE i

RECURSIVE word_end(_, _)
word_end(bytes, i) ==
    IF i <= Len(bytes) /\ ~is_ascii_whitespace(bytes[i])
    THEN word_end(bytes, i + 1)
    ELSE i

RECURSIVE trim_start_matches(_, _)
trim_start_matches(s, c) ==
    IF s # << >> /\ s[1] = c THEN trim_start_matches(Tail(s), c) ELSE s

RECURSIVE trim_end_matches(_, _)
trim_end_matches(s, c) ==
    IF s # << >> /\ s[Len(s)] = c
    THEN trim_end_matches(SubSeq(s, 1, Len(s) - 1), c)
    ELSE s

trim_matches(s, c) == trim_end_matches(trim_start_matches(s, c), c)

\* Index of the first occurrence of c in s, 0 when there is none.
find_byte(s, c) ==
    IF \E k \in 1..Len(s) : s[k] = c
    THEN CHOOSE k \in 1..Len(s) : s[k] = c /\ \A j \in 1..(k - 1) : s[j] # c
    ELSE 0

\* std::path::is_separator on the Unix build.
is_separator(c) == c = "/"

\* Index of the last separator in s, 0 when there is none.
rfind_separator(s) ==
    IF \E k \in 1..Len(s) : is_separator(s[k])
    THEN CHOOSE k \in 1..Len(s) :
            is_separator(s[k]) /\ \A j \in (k + 1)..Len(s) : ~is_separator(s[j])
    ELSE 0

clean_word(w) == trim_matches(w, "\\")

first_component_whole(clean) == clean

first_component(clean) ==
    LET idx == find_byte(clean, "\\")
    IN  IF idx # 0 THEN SubSeq(clean, 1, idx - 1) ELSE clean

path_tail(component) ==
    LET idx == rfind_separator(component)
    IN  IF idx # 0 THEN SubSeq(component, idx + 1, Len(component)) ELSE component

command_name_path_first(w) == first_component(path_tail(clean_word(w)))

command_name(w) == path_tail(first_component(clean_word(w)))

is_end_of_options(w) == w = w_dashdash

is_comment_never(w) == FALSE

is_comment(w) == starts_with(w, "#")

is_flag(w) == starts_with(w, "-")

is_filtered_never(name, filter) == FALSE

is_filtered(name, filter) == name \in filter

is_env_assignment(name) == ~starts_with(name, "$") /\ find_byte(name, "=") # 0

RECURSIVE get_first_word_from(_, _, _)
get_first_word_from(s, filter, i0) ==
    LET i1 == skip_whitespace(s, i0)
    IN  IF i1 > Len(s) THEN None
        ELSE
          LET i2 == word_end(s, i1)
              w == SubSeq(s, i1, i2 - 1)
              name == command_name(w)
          IN  IF is_end_of_options(w) THEN get_first_word_from(s, filter, i2)
              ELSE IF is_comment(w) THEN None
              ELSE IF is_flag(w) THEN get_first_word_from(s, filter, i2)
              ELSE IF name = << >> THEN get_first_word_from(s, filter, i2)
              ELSE IF is_comment(name) THEN None
              ELSE IF is_flag(name) THEN get_first_word_from(s, filter, i2)
              ELSE IF is_filtered(name, filter) THEN get_first_word_from(s, filter, i2)
              ELSE IF is_env_assignment(name) THEN get_first_word_from(s, filter, i2)
              ELSE Some(name)

get_first_word(s, filter) == get_first_word_from(s, filter, 1)

-----------------------------------------------------------------------------
(* src/shared/command_parse.rs: SplitCommands *)

\* The scan of SplitCommands::next over remaining[i..]: the index of the
\* first | met with both quote flags down, 0 when the scan ends without one.
RECURSIVE split_scan(_, _, _, _)
split_scan(remaining, i, in_single_quotes, in_double_quotes) ==
    IF i > Len(remaining) THEN 0
    ELSE IF remaining[i] = "'"
         THEN split_scan(remaining, i + 1, ~in_single_quotes, in_double_quotes)
    ELSE IF remaining[i] = "\""
         THEN split_scan(remaining, i + 1, in_single_quotes, ~in_double_quotes)
    ELSE IF remaining[i] = "|" /\ ~in_single_quotes /\ ~in_double_quotes
         THEN i
    ELSE split_scan(remaining, i + 1, in_single_quotes, in_double_quotes)

split_idx_any_pipe(remaining) == find_byte(remaining, "|")

split_idx(remaining) == split_scan(remaining, 1, FALSE, FALSE)

\* next() taking one byte too many after the split point.
split_commands_next_skips_two(remaining) ==
    IF remaining = << >> THEN [item |-> None, remaining |-> remaining]
    ELSE LET idx == split_idx(remaining)
         IN  IF idx # 0
             THEN [item |-> Some(SubSeq(remaining, 1, idx - 1)),
                   remaining |-> IF idx + 2 <= Len(remaining)
                                 THEN SubSeq(remaining, idx + 2, Len(remaining))
                                 ELSE << >>]
             ELSE [item |-> Some(remaining), remaining |-> << >>]

\* One call of next(): the item returned and the iterator's new remaining.
split_commands_next(remaining) ==
    IF remaining = << >> THEN [item |-> None, remaining |-> remaining]
    ELSE LET idx == split_idx(remaining)
         IN  IF idx # 0
             THEN [item |-> Some(SubSeq(remaining, 1, idx - 1)),
                   remaining |-> SubSeq(remaining, idx + 1, Len(remaining))]
             ELSE [item |-> Some(remaining), remaining |-> << >>]

\* for subcommand in SplitCommands::new(line): the items up to the first None.
RECURSIVE split_commands(_)
split_commands(remaining) ==
    LET r == split_commands_next(remaining)
    IN  IF r.item = None THEN << >>
        ELSE r.item \o split_commands(r.remaining)

-----------------------------------------------------------------------------
(* src/utils.rs: clean_line, and str::split('|') *)

RECURSIVE clean_scan(_, _, _, _)
clean_scan(line, i, in_single_quotes, in_double_quotes) ==
    IF i > Len(line) THEN << >>
    ELSE IF line[i] = "'"
         THEN <<line[i]>> \o clean_scan(line, i + 1, ~in_single_quotes, in_double_quotes)
    ELSE IF line[i] = "\""
         THEN <<line[i]>> \o clean_scan(line, i + 1, in_single_quotes, ~in_double_quotes)
    ELSE IF line[i] = "|" /\ (in_single_quotes \/ in_double_quotes)
         THEN <<" ">> \o clean_scan(line, i + 1, in_single_quotes, in_double_quotes)
    ELSE <<line[i]>> \o clean_scan(line, i + 1, in_single_quotes, in_double_quotes)

clean_line(line) == clean_scan(line, 1, FALSE, FALSE)

\* str::split(c): the pieces between the occurrences of c, empty ones kept.
RECURSIVE str_split(_, _)
str_split(s, c) ==
    LET idx == find_byte(s, c)
    IN  IF idx = 0 THEN <<s>>
        ELSE <<SubSeq(s, 1, idx - 1)>> \o str_split(SubSeq(s, idx + 1, Len(s)), c)

contains(s, c) == find_byte(s, c) # 0

ends_with(s, c) == s # << >> /\ s[Len(s)] = c

-----------------------------------------------------------------------------
(* The FrequencyMap and the aggregation sites. *)

EmptyMap == [k \in {} |-> 0]

\* src/history/shell.rs: increment_count
shell_increment_count_from_zero(counts, first_word) ==
    IF first_word \in DOMAIN counts
    THEN [counts EXCEPT ![first_word] = @ + 1]
    ELSE counts @@ (first_word :> 0)

shell_increment_count(counts, first_word) ==
    IF first_word \in DOMAIN counts
    THEN [counts EXCEPT ![first_word] = @ + 1]
    ELSE counts @@ (first_word :> 1)

\* an increment_count that stores 1 whatever the count was
simple_increment_count_resets(counts, first_word) ==
    IF first_word \in DOMAIN counts
    THEN [counts EXCEPT ![first_word] = 1]
    ELSE counts @@ (first_word :> 1)

\* src/history/simple_history.rs: increment_count
simple_increment_count(counts, first_word) ==
    IF first_word \in DOMAIN counts
    THEN [counts EXCEPT ![first_word] = @ + 1]
    ELSE counts @@ (first_word :> 1)

\* src/history/tcsh.rs: increment_count, *entry.or_insert(0) += 1
tcsh_increment_count(counts, first_word) ==
    LET entry == IF first_word \in DOMAIN counts
                 THEN counts
                 ELSE counts @@ (first_word :> 0)
    IN  [entry EXCEPT ![first_word] = @ + 1]

\* The increment_count of the module the caller lives in.
increment_count(site, counts, first_word) ==
    IF site = "shell" THEN shell_increment_count(counts, first_word)
    ELSE IF site = "simple" THEN simple_increment_count(counts, first_word)
    ELSE tcsh_increment_count(counts, first_word)

\* for subcommand in <stages> { if let Some(first_word) = get_first_word(..) {..} }
RECURSIVE count_stages(_, _, _, _)
count_stages(counts, stages, filter, site) ==
    IF stages = << >> THEN counts
    ELSE LET first_word == get_first_word(Head(stages), filter)
             counted == IF first_word # None
                        THEN increment_count(site, counts, first_word[1])
                        ELSE counts
         IN  count_stages(counted, Tail(stages), filter, site)

\* The FilterSet built at the head of every count_from_file.
wrappers_always(nohist) == {w_sudo, w_doas}

wrappers(nohist) == IF ~nohist THEN {w_sudo, w_doas} ELSE {}

filter_set_without_ignore(ignored, nohist) == wrappers(nohist)

filter_set(ignored, nohist) == wrappers(nohist) \cup { ignored[k] : k \in 1..Len(ignored) }

\* trim_line_end: line.trim_end_matches(['\n', '\r'])
RECURSIVE trim_line_end(_)
trim_line_end(line) ==
    IF line # << >> /\ line[Len(line)] \in {"\n", "\r"}
    THEN trim_line_end(SubSeq(line, 1, Len(line) - 1))
    ELSE line

\* A physical line decodes unless it holds a byte that is not valid UTF-8.
INVALID == "<ff>"
is_utf8(line_bytes) == \A k \in 1..Len(line_bytes) : line_bytes[k] # INVALID

RECURSIVE trim_start(_)
trim_start(s) == IF s # << >> /\ is_ascii_whitespace(s[1]) THEN trim_start(Tail(s)) ELSE s

RECURSIVE trim_end(_)
trim_end(s) ==
    IF s # << >> /\ is_ascii_whitespace(s[Len(s)])
    THEN trim_end(SubSeq(s, 1, Len(s) - 1))
    ELSE s

trim(s) == trim_end(trim_start(s))

starts_with_str(s, prefix) ==
    Len(s) >= Len(prefix) /\ SubSeq(s, 1, Len(prefix)) = prefix

-----------------------------------------------------------------------------
(* src/history/shell.rs: the Shell reader *)

shell_split(line, nohist) == contains(line, "|") /\ ~nohist

shell_count_commands(counts, line, filter, nohist) ==
    IF shell_split(line, nohist)
    THEN IF contains(line, "'") \/ contains(line, "\"")
         THEN count_stages(counts, str_split(clean_line(line), "|"), filter, "shell")
         ELSE count_stages(counts, str_split(line, "|"), filter, "shell")
    ELSE count_stages(counts, <<line>>, filter, "shell")

\* process_line without the skip flag: every line is extracted.
shell_process_line_ignoring_skip(trimmed_line, skip0, counts, filter, nohist) ==
    [skip |-> ends_with(trimmed_line, "\\"),
     cmd_count |-> shell_count_commands(counts, trimmed_line, filter, nohist),
     counted |-> Some(trimmed_line)]

\* process_line where a `: ` line without `;` is passed over and the skip
\* flag left as it was.
shell_process_line_metadata_ignored(trimmed_line, skip0, counts, filter, nohist) ==
    LET is_zsh_extended == starts_with_str(trimmed_line, <<":", " ">>)
        semi == find_byte(trimmed_line, ";")
        actual_line == IF is_zsh_extended
                       THEN SubSeq(trimmed_line, semi + 1, Len(trimmed_line))
                       ELSE trimmed_line
        backslash == ends_with(actual_line, "\\")
    IN  IF is_zsh_extended /\ semi = 0
        THEN [skip |-> skip0, cmd_count |-> counts, counted |-> None]
        ELSE IF skip0
        THEN [skip |-> backslash, cmd_count |-> counts, counted |-> None]
        ELSE [skip |-> backslash,
              cmd_count |-> shell_count_commands(counts, actual_line, filter, nohist),
              counted |-> Some(actual_line)]

\* process_line where the content of a `: ` line starts after its last `;`.
shell_process_line_after_last_semicolon(trimmed_line, skip0, counts, filter, nohist) ==
    LET is_zsh_extended == starts_with_str(trimmed_line, <<":", " ">>)
        semis == { i \in 1..Len(trimmed_line) : trimmed_line[i] = ";" }
        last_semi == CHOOSE i \in semis : \A j \in semis : j <= i
        actual_line == IF is_zsh_extended
                       THEN SubSeq(trimmed_line, last_semi + 1, Len(trimmed_line))
                       ELSE trimmed_line
        backslash == ends_with(actual_line, "\\")
    IN  IF is_zsh_extended /\ semis = {}
        THEN [skip |-> TRUE, cmd_count |-> counts, counted |-> None]
        ELSE IF skip0
        THEN [skip |-> backslash, cmd_count |-> counts, counted |-> None]
        ELSE [skip |-> backslash,
              cmd_count |-> shell_count_commands(counts, actual_line, filter, nohist),
              counted |-> Some(actual_line)]

\* process_line: the new skip flag, the new map, and the text handed to
\* count_commands (none when the line was not extracted).
shell_process_line(trimmed_line, skip0, counts, filter, nohist) ==
    LET is_zsh_extended == starts_with_str(trimmed_line, <<":", " ">>)
        semi == find_byte(trimmed_line, ";")
    IN  IF is_zsh_extended /\ semi = 0
        THEN [skip |-> TRUE, cmd_count |-> counts, counted |-> None]
        ELSE
          LET actual_line == IF is_zsh_extended
                             THEN SubSeq(trimmed_line, semi + 1, Len(trimmed_line))
                             ELSE trimmed_line
              metadata == is_zsh_extended /\ ~contains(trimmed_line, ";")
              backslash == ends_with(actual_line, "\\")
          IN  IF ~skip0 /\ ~metadata /\ ~backslash
              THEN [skip |-> skip0,
                    cmd_count |-> shell_count_commands(counts, actual_line, filter, nohist),
                    counted |-> Some(actual_line)]
              ELSE IF ~skip0 /\ ~metadata /\ backslash
              THEN [skip |-> TRUE,
                    cmd_count |-> shell_count_commands(counts, actual_line, filter, nohist),
                    counted |-> Some(actual_line)]
              ELSE IF ~skip0 /\ metadata
              THEN [skip |-> TRUE, cmd_count |-> counts, counted |-> None]
              ELSE IF skip0 /\ backslash
              THEN [skip |-> TRUE, cmd_count |-> counts, counted |-> None]
              ELSE [skip |-> FALSE, cmd_count |-> counts, counted |-> None]

shell_read_line_skips_after_undecodable(line_bytes, skip0, counts, filter, nohist) ==
    IF ~is_utf8(line_bytes)
    THEN [skip |-> TRUE, cmd_count |-> counts, counted |-> None]
    ELSE shell_process_line(trim_line_end(line_bytes), skip0, counts, filter, nohist)

\* One iteration of the loop of count_from_bytes.
shell_read_line(line_bytes, skip0, counts, filter, nohist) ==
    IF ~is_utf8(line_bytes)
    THEN [skip |-> skip0, cmd_count |-> counts, counted |-> None]
    ELSE shell_process_line(trim_line_end(line_bytes), skip0, counts, filter, nohist)

\* bytes.split(|&b| b == b'\n'): the next piece and what is left, None after
\* the last piece.
bytes_split_next(rest) ==
    LET idx == find_byte(rest, "\n")
    IN  IF idx # 0
        THEN [piece |-> SubSeq(rest, 1, idx - 1),
              rest |-> Some(SubSeq(rest, idx + 1, Len(rest)))]
        ELSE [piece |-> rest, rest |-> None]

\* reader.read_until(b'\n', &mut line_buf): the bytes up to and including
\* the next newline, or all that is left.
read_until(rest) ==
    LET idx == find_byte(rest, "\n")
    IN  IF idx # 0
        THEN [line_buf |-> SubSeq(rest, 1, idx), rest |-> SubSeq(rest, idx + 1, Len(rest))]
        ELSE [line_buf |-> rest, rest |-> << >>]

reader_read_line_untrimmed(line_buf, skip0, counts, filter, nohist) ==
    IF ~is_utf8(line_buf)
    THEN [skip |-> skip0, cmd_count |-> counts, counted |-> None]
    ELSE shell_process_line(line_buf, skip0, counts, filter, nohist)

\* One iteration of the loop of count_from_reader, after read_until.
reader_read_line(line_buf, skip0, counts, filter, nohist) ==
    IF ~is_utf8(line_buf)
    THEN [skip |-> skip0, cmd_count |-> counts, counted |-> None]
    ELSE shell_process_line(trim_line_end(line_buf), skip0, counts, filter, nohist)

-----------------------------------------------------------------------------
(* src/history/simple_history.rs: the line readers (PowerShell) *)

simple_count_commands(counts, line, filter, nohist) ==
    IF ~nohist /\ contains(line, "|")
    THEN count_stages(counts, split_commands(line), filter, "simple")
    ELSE count_stages(counts, <<line>>, filter, "simple")

\* src/history/powershell.rs: the skip_line closure, |_| false
powershell_skip_line(line) == FALSE

\* One iteration of the loop of count_from_file.
simple_read_line(line_bytes, counts, filter, nohist) ==
    IF ~is_utf8(line_bytes)
    THEN [cmd_count |-> counts, counted |-> None]
    ELSE LET line == trim_line_end(line_bytes)
         IN  IF trim(line) = << >> \/ powershell_skip_line(line)
             THEN [cmd_count |-> counts, counted |-> None]
             ELSE [cmd_count |-> simple_count_commands(counts, line, filter, nohist),
                   counted |-> Some(line)]

-----------------------------------------------------------------------------
(* src/history/tcsh.rs: the tcsh reader *)

\* BufRead::lines: the line without its terminator, \r\n included.
lines_strip(line_bytes) ==
    IF ends_with(line_bytes, "\r") THEN SubSeq(line_bytes, 1, Len(line_bytes) - 1)
    ELSE line_bytes

tcsh_process_command_unsplit(counts, line, filter, nohist) ==
    count_stages(counts, <<line>>, filter, "tcsh")

tcsh_process_command(counts, line, filter, nohist) ==
    IF contains(line, "|") /\ ~nohist
    THEN count_stages(counts, split_commands(line), filter, "tcsh")
    ELSE count_stages(counts, <<line>>, filter, "tcsh")

\* One iteration of the loop of count_from_file; `line?` returns the error.
tcsh_read_line(line_bytes, counts, filter, nohist) ==
    IF ~is_utf8(line_bytes)
    THEN [failed |-> TRUE, cmd_count |-> counts, counted |-> None]
    ELSE LET line == lines_strip(line_bytes)
             trimmed == trim(line)
         IN  IF trimmed = << >> \/ starts_with(trimmed, "#")
             THEN [failed |-> FALSE, cmd_count |-> counts, counted |-> None]
             ELSE [failed |-> FALSE,
                   cmd_count |-> tcsh_process_command(counts, line, filter, nohist),
                   counted |-> Some(line)]

-----------------------------------------------------------------------------
(* src/history/fish.rs: the Fish reader *)

p_cmd == <<"-", " ", "c", "m", "d", ":", " ">>
p_when == <<" ", " ", "w", "h", "e", "n", ":", " ">>
p_paths == <<" ", " ", "p", "a", "t", "h", "s", ":">>
p_item == <<" ", " ", "-", " ">>

is_ascii_any(line_bytes) == TRUE

is_ascii(line_bytes) == is_utf8(line_bytes)

is_ascii_metadata_line(line_bytes) ==
    /\ is_ascii(line_bytes)
    /\ \/ starts_with_str(line_bytes, p_when)
       \/ starts_with_str(line_bytes, p_paths)
       \/ starts_with_str(line_bytes, p_item)

is_metadata(trimmed_line) ==
    \/ starts_with_str(trimmed_line, p_when)
    \/ starts_with_str(trimmed_line, p_paths)
    \/ starts_with_str(trimmed_line, p_item)

fish_process_line_no_join(trimmed_line, cur, counts, filter, nohist) ==
    IF starts_with_str(trimmed_line, p_cmd)
    THEN [current_cmd |-> SubSeq(trimmed_line, Len(p_cmd) + 1, Len(trimmed_line)),
          cmd_count |-> IF cur # << >>
                        THEN simple_count_commands(counts, cur, filter, nohist)
                        ELSE counts,
          counted |-> IF cur # << >> THEN Some(cur) ELSE None]
    ELSE IF cur # << >> /\ is_metadata(trimmed_line)
    THEN [current_cmd |-> << >>,
          cmd_count |-> simple_count_commands(counts, cur, filter, nohist),
          counted |-> Some(cur)]
    ELSE [current_cmd |-> cur, cmd_count |-> counts, counted |-> None]

\* process_line: the new in-progress command, the new map, and the text
\* handed to count_commands (none when nothing was flushed).
fish_process_line(trimmed_line, cur, counts, filter, nohist) ==
    IF starts_with_str(trimmed_line, p_cmd)
    THEN [current_cmd |-> SubSeq(trimmed_line, Len(p_cmd) + 1, Len(trimmed_line)),
          cmd_count |-> IF cur # << >>
                        THEN simple_count_commands(counts, cur, filter, nohist)
                        ELSE counts,
          counted |-> IF cur # << >> THEN Some(cur) ELSE None]
    ELSE IF cur # << >>
              /\ ends_with(cur, "\\")
              /\ starts_with_str(trimmed_line, <<" ", " ">>)
              /\ ~is_metadata(trimmed_line)
    THEN [current_cmd |-> trim_end(SubSeq(cur, 1, Len(cur) - 1)) \o <<" ">>
                            \o trim_start(trimmed_line),
          cmd_count |-> counts,
          counted |-> None]
    ELSE IF cur # << >> /\ is_metadata(trimmed_line)
    THEN [current_cmd |-> << >>,
          cmd_count |-> simple_count_commands(counts, cur, filter, nohist),
          counted |-> Some(cur)]
    ELSE [current_cmd |-> cur, cmd_count |-> counts, counted |-> None]

\* One iteration of the loop of count_from_bytes.
fish_read_line(line_bytes, cur, counts, filter, nohist) ==
    IF cur # << >> /\ is_ascii_metadata_line(line_bytes)
    THEN [current_cmd |-> << >>,
          cmd_count |-> simple_count_commands(counts, cur, filter, nohist),
          counted |-> Some(cur)]
    ELSE IF ~is_utf8(line_bytes)
    THEN [current_cmd |-> cur, cmd_count |-> counts, counted |-> None]
    ELSE fish_process_line(trim_line_end(line_bytes), cur, counts, filter, nohist)

fish_end_of_stream_no_flush(cur, counts, filter, nohist) ==
    [cmd_count |-> counts, counted |-> None]

\* After the loop: the in-progress command is flushed.
fish_end_of_stream(cur, counts, filter, nohist) ==
    IF cur # << >>
    THEN [cmd_count |-> simple_count_commands(counts, cur, filter, nohist),
          counted |-> Some(cur)]
    ELSE [cmd_count |-> counts, counted |-> None]

-----------------------------------------------------------------------------
(* src/history.rs: the earlier Shell reader *)

\* src/history.rs: entry(..).and_modify(|count| *count += 1).or_default()
legacy_increment_count(counts, first_word) ==
    IF first_word \in DOMAIN counts
    THEN [counts EXCEPT ![first_word] = @ + 1]
    ELSE counts @@ (first_word :> 0)

RECURSIVE legacy_first_word_from(_, _, _)
legacy_first_word_from(subcommand, filter, i0) ==
    LET i1 == skip_whitespace(subcommand, i0)
    IN  IF i1 > Len(subcommand) THEN << >>
        ELSE
          LET i2 == word_end(subcommand, i1)
              w == SubSeq(subcommand, i1, i2 - 1)
          IN  IF w \in filter \/ contains(w, "=")
              THEN legacy_first_word_from(subcommand, filter, i2)
              ELSE IF starts_with(w, "\\") /\ Len(w) > 1
              THEN IF Tail(w) \in filter
                   THEN legacy_first_word_from(subcommand, filter, i2)
                   ELSE Tail(w)
              ELSE w

\* get_first_word: the empty string stands for no word.
legacy_get_first_word(subcommand, filter) == legacy_first_word_from(subcommand, filter, 1)

RECURSIVE legacy_count_stages(_, _, _)
legacy_count_stages(counts, stages, filter) ==
    IF stages = << >> THEN counts
    ELSE LET first_word == legacy_get_first_word(Head(stages), filter)
             counted == IF first_word # << >>
                        THEN legacy_increment_count(counts, first_word)
                        ELSE counts
         IN  legacy_count_stages(counted, Tail(stages), filter)

legacy_count_commands(counts, line, filter, nohist) ==
    IF contains(line, "|") /\ ~nohist
    THEN legacy_count_stages(counts, str_split(clean_line(line), "|"), filter)
    ELSE legacy_count_stages(counts, <<line>>, filter)

\* One iteration of the loop of count_from_file.
legacy_read_line(line_bytes, skip0, counts, filter, nohist) ==
    IF ~is_utf8(line_bytes)
    THEN [skip |-> skip0, cmd_count |-> counts, counted |-> None]
    ELSE
      LET line == lines_strip(line_bytes)
          metadata == starts_with_str(line, <<":", " ">>)
          backslash == ends_with(line, "\\")
      IN  IF ~skip0 /\ ~metadata /\ ~backslash
          THEN [skip |-> skip0,
                cmd_count |-> legacy_count_commands(counts, line, filter, nohist),
                counted |-> Some(line)]
          ELSE IF ~skip0 /\ ~metadata /\ backslash
          THEN [skip |-> TRUE,
                cmd_count |-> legacy_count_commands(counts, line, filter, nohist),
                counted |-> Some(line)]
          ELSE IF ~skip0 /\ metadata
          THEN [skip |-> TRUE, cmd_count |-> counts, counted |-> None]
          ELSE IF skip0 /\ backslash
          THEN [skip |-> TRUE, cmd_count |-> counts, counted |-> None]
          ELSE [skip |-> FALSE, cmd_count |-> counts, counted |-> None]

-----------------------------------------------------------------------------
(* src/history/detect.rs (and src/app/parser.rs): detect_history_format *)

MAX_INSPECTED == 64

d_when == <<"w", "h", "e", "n", ":", " ">>
d_paths == <<"p", "a", "t", "h", "s", ":">>

\* The scores after one inspected line.
detect_score(raw, fish, shell) ==
    LET trimmed == trim(raw)
    IN  IF starts_with_str(trimmed, p_cmd)
        THEN [fish |-> fish + 4, shell |-> shell]
        ELSE IF starts_with_str(trimmed, d_when) \/ starts_with_str(trimmed, d_paths)
        THEN [fish |-> fish + 2, shell |-> shell]
        ELSE IF \/ starts_with_str(raw, p_when)
                \/ starts_with_str(raw, p_paths \o <<" ">>)
                \/ starts_with_str(raw, p_item)
        THEN [fish |-> fish + 1, shell |-> shell]
        ELSE IF starts_with_str(raw, <<":", " ">>) /\ contains(raw, ";")
        THEN [fish |-> fish, shell |-> shell + 3]
        ELSE [fish |-> fish, shell |-> shell + 1]

detect_format_ties_fish(fish, shell) == IF fish >= shell THEN "Fish" ELSE "Shell"

detect_format(fish, shell) == IF fish > shell THEN "Fish" ELSE "Shell"

detect_read_line_counts_every_line(line_bytes, fish, shell, seen) ==
    IF is_utf8(line_bytes) /\ trim(lines_strip(line_bytes)) # << >>
    THEN LET sc == detect_score(lines_strip(line_bytes), fish, shell)
         IN  [fish |-> sc.fish, shell |-> sc.shell, inspected |-> seen + 1,
              stop |-> seen + 1 >= MAX_INSPECTED]
    ELSE [fish |-> fish, shell |-> shell, inspected |-> seen + 1,
          stop |-> seen + 1 >= MAX_INSPECTED]

\* One iteration of the loop over reader.lines().
detect_read_line(line_bytes, fish, shell, seen) ==
    IF ~is_utf8(line_bytes)
    THEN [fish |-> fish, shell |-> shell, inspected |-> seen, stop |-> FALSE]
    ELSE LET raw == lines_strip(line_bytes)
         IN  IF trim(raw) = << >>
             THEN [fish |-> fish, shell |-> shell, inspected |-> seen, stop |-> FALSE]
             ELSE LET sc == detect_score(raw, fish, shell)
                  IN  [fish |-> sc.fish, shell |-> sc.shell, inspected |-> seen + 1,
                       stop |-> seen + 1 >= MAX_INSPECTED]

-----------------------------------------------------------------------------
(* src/bar.rs: render_bar_segment and render_bars *)

\* (num / den * bar_size).round() as usize for num >= 0: the nearest integer
\* to num * bar_size / den. The f32 product of a value that is half-way in
\* exact arithmetic can fall on either side, tie_up tells which.
round_as_usize(num, den, bar_size, tie_up) ==
    LET k == (num * bar_size) \div den
        r == (num * bar_size) % den
    IN  IF 2 * r < den THEN k
        ELSE IF 2 * r > den THEN k + 1
        ELSE IF tie_up THEN k + 1 ELSE k

repeat(c, n) == [i \in 1..n |-> c]

\* The string built from the three counts.
bar_string(unfilled, semifilled, filled) ==
    IF unfilled + semifilled + filled > 0
    THEN <<"edge">> \o repeat("unfilled", unfilled) \o repeat("semifilled", semifilled)
             \o repeat("filled", filled) \o <<"edge">>
    ELSE << >>

\* bar_size - filled_count - semifilled_count is a usize subtraction: a
\* negative result is an overflow, which panics; the field overflow tells
\* that it happened.
segment(unfilled, semifilled, filled) ==
    [unfilled_count |-> IF unfilled < 0 THEN 0 ELSE unfilled,
     semifilled_count |-> semifilled,
     filled_count |-> filled,
     overflow |-> unfilled < 0,
     bar_str |-> bar_string(IF unfilled < 0 THEN 0 ELSE unfilled, semifilled, filled)]

render_bar_segment_unclamped(value, inv, total, bar_size, show_cumu, show_perc, tie_semi, tie_filled) ==
    IF show_cumu /\ show_perc
    THEN LET semi == round_as_usize(inv - value, total, bar_size, tie_semi)
             fill == round_as_usize(value, total, bar_size, tie_filled)
         IN  segment(bar_size - fill - semi, semi, fill)
    ELSE IF show_perc
    THEN LET fill == round_as_usize(value, total, bar_size, tie_filled)
         IN  segment(bar_size - fill, 0, fill)
    ELSE IF show_cumu
    THEN LET semi == round_as_usize(inv, total, bar_size, tie_semi)
         IN  segment(bar_size - semi, semi, 0)
    ELSE segment(0, 0, 0)

\* perc is value / total * 100 and inv_cumu_perc is inv / total * 100.
render_bar_segment(value, inv, total, bar_size, show_cumu, show_perc, tie_semi, tie_filled) ==
    IF show_cumu /\ show_perc
    THEN LET semi0 == round_as_usize(inv - value, total, bar_size, tie_semi)
             fill == round_as_usize(value, total, bar_size, tie_filled)
             semi == IF fill + semi0 > bar_size THEN bar_size - fill ELSE semi0
         IN  segment(bar_size - fill - semi, semi, fill)
    ELSE IF show_perc
    THEN LET fill == round_as_usize(value, total, bar_size, tie_filled)
         IN  segment(bar_size - fill, 0, fill)
    ELSE IF show_cumu
    THEN LET semi == round_as_usize(inv, total, bar_size, tie_semi)
         IN  segment(bar_size - semi, semi, 0)
    ELSE segment(0, 0, 0)

RECURSIVE sum(_)
sum(values) == IF values = << >> THEN 0 ELSE Head(values) + sum(Tail(values))

-----------------------------------------------------------------------------
(* Inputs of the readers: the physical lines a stream is made of. *)

l_git_status == <<"g", "i", "t", " ", "s", "t", "a", "t", "u", "s">>
l_sudo_apt_update ==
    <<"s", "u", "d", "o", " ", "a", "p", "t", " ", "u", "p", "d", "a", "t", "e">>
l_ls_grep_foo == <<"l", "s", " ", "|", " ", "g", "r", "e", "p", " ", "f", "o", "o">>
l_echo_quoted_wc ==
    <<"e", "c", "h", "o", " ", "'", "a", " ", "|", " ", "b", "'", " ", "|", " ", "w", "c">>
l_dquoted_ls == <<"\"", "a", "|", "b", "\"", " ", "|", " ", "l", "s">>
l_ls_backslash == <<"l", "s", " ", "\\">>
l_zsh_git_log == <<":", " ", "1", ":", "0", ";", "g", "i", "t", " ", "l", "o", "g", "\r">>
l_zsh_metadata == <<":", " ", "1", ":", "0">>
l_undecodable == <<"l", "s", INVALID>>
l_empty == << >>
l_blank == <<" ", " ">>
l_tcsh_stamp == <<"#", "+", "1", "6", "8", "0">>

ShellLines ==
    { l_git_status, l_sudo_apt_update, l_ls_grep_foo, l_echo_quoted_wc,
      l_ls_backslash, l_zsh_git_log, l_zsh_metadata, l_undecodable, l_empty }

SimpleLines ==
    { l_git_status, l_sudo_apt_update, l_ls_grep_foo, l_ls_backslash, l_tcsh_stamp,
      l_undecodable, l_blank }

f_git_status == p_cmd \o l_git_status
f_doas_backslash == p_cmd \o <<"d", "o", "a", "s", " ", "-", "-", " ", "\\">>
f_systemctl ==
    <<" ", " ", "s", "y", "s", "t", "e", "m", "c", "t", "l", " ", "s", "t", "o", "p", " ",
      "s", "s", "h", "d">>
f_dashes_backslash == <<" ", " ", "-", "-", " ", "\\">>
f_cmd_empty == p_cmd
f_when == p_when \o <<"1", "2", "3">>
f_paths == p_paths
f_path_item == <<" ", " ", " ", " ", "-", " ", "/", "p">>
f_ls_grep_foo == p_cmd \o l_ls_grep_foo
f_undecodable_when == p_when \o <<INVALID>>

FishLines ==
    { f_git_status, f_doas_backslash, f_dashes_backslash, f_systemctl, f_when, f_paths, f_path_item,
      f_ls_grep_foo, f_cmd_empty, f_undecodable_when }

IgnoreLists == { << >>, <<w_git, w_ls>> }

Readers == {"shell", "powershell", "tcsh", "fish"}

-----------------------------------------------------------------------------
(* Inputs of the tokenizer. *)

WordPool ==
    { w_dashdash,
      <<"-", "i">>,
      <<"#", "x">>,
      <<"\\", "#", "c">>,
      <<"\\", "-", "f">>,
      w_sudo,
      <<"\\", "s", "u", "d", "o">>,
      <<"/", "b", "/", "s", "u", "d", "o">>,
      w_apt,
      <<"/", "b", "/", "g", "r", "e", "p">>,
      <<"F", "=", "b">>,
      <<"F", "=", "/", "b", "/", "x">>,
      <<"$", "E">>,
      <<"$", "E", "=", "1">>,
      <<"a", "/", "c", "d", "\\", "n", "/", "u">>,
      <<"l", "s", "\\">>,
      <<"\\">>,
      <<"b", "/">>,
      <<".", "/", "m">>,
      <<"x", "/", "-", "y">>,
      <<"x", "/", "#", "y">>,
      <<"-", "/", "#", "z">>,
      <<"#", "/", "s", "u", "d", "o">> }

RECURSIVE WordSeqs(_)
WordSeqs(n) ==
    IF n = 0 THEN { << >> }
    ELSE LET shorter == WordSeqs(n - 1)
         IN  shorter \cup { Append(ws, w) : ws \in shorter, w \in WordPool }

w_update == <<"u", "p", "d", "a", "t", "e">>
w_comment == <<"c", "o", "m", "m", "e", "n", "t">>
w_reboot == <<"r", "e", "b", "o", "o", "t">>
w_mvnw == <<"m", "v", "n", "w">>
w_cmd == <<"c", "m", "d">>
w_editor == <<"$", "E", "D", "I", "T", "O", "R">>

ex_sudo_apt_update == Join(<<w_sudo, w_apt, w_update>>)
ex_usr_bin_sudo_apt == <<"/", "u", "s", "r", "/", "b", "i", "n", "/">> \o Join(<<w_sudo, w_apt>>)
ex_esc_sudo_apt == <<"\\">> \o Join(<<w_sudo, w_apt>>)
ex_doas_systemctl ==
    Join(<<w_doas, w_dashdash, w_systemctl, <<"s", "t", "o", "p">>, <<"s", "s", "h", "d">> >>)
ex_sudo_i == Join(<<w_sudo, <<"-", "i">> >>)
ex_bin_grep_foo == <<"/", "b", "i", "n", "/">> \o Join(<<w_grep, w_foo>>)
ex_sudo_u_user_id == Join(<<w_sudo, <<"-", "u">>, <<"u", "s", "e", "r">>, <<"i", "d">> >>)
ex_env_cmd_arg == Join(<<<<"F", "O", "O", "=", "b", "a", "r">>, w_cmd, <<"a", "r", "g">> >>)
ex_editor == Join(<<w_editor, <<"f", "i", "l", "e", ".", "t", "x", "t">> >>)
ex_hash_comment == Join(<<<<"#">>, w_comment>>)
ex_indented_comment ==
    <<" ", " ", " ">> \o Join(<<<<"#", "i", "n", "d", "e", "n", "t", "e", "d">>, w_comment>>)
ex_esc_comment == <<"\\", "#">> \o w_comment
ex_sudo_hash_ls == Join(<<w_sudo, <<"#", "x">>, w_ls>>)
ex_esc_ls == <<"\\">> \o w_ls
ex_cd_numount == w_cd \o <<"\\", "n", "u", "m", "o", "u", "n", "t">>
ex_reboot_bs == w_reboot \o <<"\\">>
ex_nix_grep ==
    <<"/", "n", "i", "x", "/", "s", "t", "o", "r", "e", "/", "x", "/", "b", "i", "n", "/">> \o w_grep
ex_mvnw == <<".", "/">> \o w_mvnw
ex_tabbed == <<"\t">> \o w_sudo \o <<"\t", " ">> \o w_ls \o <<"\r">>

NamedStages ==
    { ex_sudo_apt_update, ex_usr_bin_sudo_apt, ex_esc_sudo_apt, ex_doas_systemctl,
      ex_sudo_i, ex_bin_grep_foo, ex_sudo_u_user_id, ex_env_cmd_arg, ex_editor,
      ex_hash_comment, ex_indented_comment, ex_esc_comment, ex_sudo_hash_ls,
      ex_esc_ls, ex_cd_numount, ex_reboot_bs, ex_nix_grep, ex_mvnw, ex_tabbed }

Stages == { Join(ws) : ws \in WordSeqs(MaxWords) } \cup NamedStages

FilterSets ==
    { {}, {w_sudo, w_doas}, {w_sudo, w_grep}, {w_sudo, w_doas, w_apt, <<"#", "x">>} }

-----------------------------------------------------------------------------
(* The tokenizer called on one stage. *)

TokIdle ==
    /\ cmd = << >>
    /\ filtered = {}
    /\ result = None
    /\ tpc = "idle"

IngestIdle ==
    /\ reader = "none"
    /\ ignore = << >>
    /\ no_hist = FALSE
    /\ filtered_commands = {}
    /\ skip = FALSE
    /\ current_cmd = << >>
    /\ cmd_count = EmptyMap
    /\ nread = 0
    /\ last_line = << >>
    /\ extracted = EmptyMap
    /\ ipc = "idle"

SplitIdle ==
    /\ split_input = << >>
    /\ split_remaining = << >>
    /\ yielded = << >>
    /\ nones = 0
    /\ spc = "idle"

DetectIdle ==
    /\ fish_score = 0
    /\ shell_score = 0
    /\ inspected = 0
    /\ dline = << >>
    /\ dread = 0
    /\ format = "none"
    /\ dlines = EmptyMap
    /\ dpath = << >>
    /\ dpc = "idle"

PathIdle ==
    /\ file_bytes = << >>
    /\ bytes_rest = None
    /\ bytes_skip = FALSE
    /\ bytes_count = EmptyMap
    /\ reader_rest = << >>
    /\ reader_skip = FALSE
    /\ reader_count = EmptyMap
    /\ ppc = "idle"

BarIdle ==
    /\ items = << >>
    /\ config_size = 0
    /\ show_percentage = FALSE
    /\ show_cumulative = FALSE
    /\ item_index = 0
    /\ inv_cumu = 0
    /\ unfilled_count = 0
    /\ semifilled_count = 0
    /\ filled_count = 0
    /\ bar_str = << >>
    /\ bpc = "idle"

SubIdle ==
    /\ utils_cmd = << >>
    /\ utils_filtered = {}
    /\ track_subcommands = FALSE
    /\ utils_key = << >>
    /\ upc = "idle"

RankIdle ==
    /\ command_counts = << >>
    /\ run_more_than = 0
    /\ run_all = FALSE
    /\ run_count = 0
    /\ commands = << >>
    /\ shown_rows = 0
    /\ rpc = "idle"

CliIdle ==
    /\ args = << >>
    /\ fs_config = << >>
    /\ default_config = None
    /\ arg_i = 0
    /\ cli_overrides = << >>
    /\ config = << >>
    /\ cpc = "idle"

TokInit ==
    /\ cmd \in Stages
    /\ filtered \in FilterSets
    /\ result = None
    /\ tpc = "ready"
    /\ IngestIdle
    /\ SplitIdle
    /\ DetectIdle
    /\ PathIdle
    /\ BarIdle
    /\ SubIdle
    /\ RankIdle
    /\ CliIdle

CallGetFirstWord ==
    /\ tpc = "ready"
    /\ result' = get_first_word(cmd, filtered)
    /\ tpc' = "done"
    /\ UNCHANGED <<cmd, filtered, ingestVars, splitVars, detectVars, pathVars, barVars, subVars, rankVars, cliVars>>

TokNext == CallGetFirstWord

SpecTok == TokInit /\ [][TokNext]_vars

-----------------------------------------------------------------------------
(* Ingestion: count_from_file of the reader in use, one physical line per   *)
(* step, then the end of the stream.                                        *)

\* The texts handed to count_commands, kept with their multiplicity.
Record(bag, counted) ==
    IF counted = None THEN bag
    ELSE IF counted[1] \in DOMAIN bag THEN [bag EXCEPT ![counted[1]] = @ + 1]
    ELSE bag @@ (counted[1] :> 1)

Init ==
    /\ reader \in Readers
    /\ ignore \in IgnoreLists
    /\ no_hist \in BOOLEAN
    /\ filtered_commands = filter_set(ignore, no_hist)
    /\ skip = FALSE
    /\ current_cmd = << >>
    /\ cmd_count = EmptyMap
    /\ nread = 0
    /\ last_line = << >>
    /\ extracted = EmptyMap
    /\ ipc = "reading"
    /\ TokIdle
    /\ SplitIdle
    /\ DetectIdle
    /\ PathIdle
    /\ BarIdle
    /\ SubIdle
    /\ RankIdle
    /\ CliIdle

ShellReadLine ==
    /\ ipc = "reading"
    /\ reader = "shell"
    /\ nread < MaxLines
    /\ \E line_bytes \in ShellLines :
          LET r == shell_read_line(line_bytes, skip, cmd_count, filtered_commands, no_hist)
          IN  /\ skip' = r.skip
              /\ cmd_count' = r.cmd_count
              /\ extracted' = Record(extracted, r.counted)
              /\ last_line' = line_bytes
    /\ nread' = nread + 1
    /\ UNCHANGED <<reader, ignore, no_hist, filtered_commands, current_cmd, ipc, tokVars, splitVars, detectVars, pathVars, barVars, subVars, rankVars, cliVars>>

PowerShellReadLine ==
    /\ ipc = "reading"
    /\ reader = "powershell"
    /\ nread < MaxLines
    /\ \E line_bytes \in SimpleLines :
          LET r == simple_read_line(line_bytes, cmd_count, filtered_commands, no_hist)
          IN  /\ cmd_count' = r.cmd_count
              /\ extracted' = Record(extracted, r.counted)
              /\ last_line' = line_bytes
    /\ nread' = nread + 1
    /\ UNCHANGED <<reader, ignore, no_hist, filtered_commands, skip, current_cmd, ipc,
                   tokVars, splitVars, detectVars, pathVars, barVars, subVars, rankVars, cliVars>>

TcshReadLine ==
    /\ ipc = "reading"
    /\ reader = "tcsh"
    /\ nread < MaxLines
    /\ \E line_bytes \in SimpleLines :
          LET r == tcsh_read_line(line_bytes, cmd_count, filtered_commands, no_hist)
          IN  /\ cmd_count' = r.cmd_count
              /\ extracted' = Record(extracted, r.counted)
              /\ last_line' = line_bytes
              /\ ipc' = IF r.failed THEN "error" ELSE ipc
    /\ nread' = nread + 1
    /\ UNCHANGED <<reader, ignore, no_hist, filtered_commands, skip, current_cmd, tokVars,
                   splitVars, detectVars, pathVars, barVars, subVars, rankVars, cliVars>>

FishReadLine ==
    /\ ipc = "reading"
    /\ reader = "fish"
    /\ nread < MaxLines
    /\ \E line_bytes \in FishLines :
          LET r == fish_read_line(line_bytes, current_cmd, cmd_count, filtered_commands,
                                  no_hist)
          IN  /\ current_cmd' = r.current_cmd
              /\ cmd_count' = r.cmd_count
              /\ extracted' = Record(extracted, r.counted)
              /\ last_line' = line_bytes
    /\ nread' = nread + 1
    /\ UNCHANGED <<reader, ignore, no_hist, filtered_commands, skip, ipc, tokVars, splitVars, detectVars, pathVars, barVars, subVars, rankVars, cliVars>>

EndOfStream ==
    /\ ipc = "reading"
    /\ LET r == IF reader = "fish"
                THEN fish_end_of_stream(current_cmd, cmd_count, filtered_commands, no_hist)
                ELSE [cmd_count |-> cmd_count, counted |-> None]
       IN  /\ cmd_count' = r.cmd_count
           /\ extracted' = Record(extracted, r.counted)
    /\ ipc' = "done"
    /\ UNCHANGED <<reader, ignore, no_hist, filtered_commands, skip, current_cmd, nread,
                   last_line, tokVars, splitVars, detectVars, pathVars, barVars, subVars, rankVars, cliVars>>

Next ==
    \/ ShellReadLine
    \/ PowerShellReadLine
    \/ TcshReadLine
    \/ FishReadLine
    \/ EndOfStream

Spec == Init /\ [][Next]_vars

-----------------------------------------------------------------------------
(* Ingestion by the earlier Shell reader of src/history.rs. *)

LegacyInit ==
    /\ reader = "legacy"
    /\ ignore \in IgnoreLists
    /\ no_hist \in BOOLEAN
    /\ filtered_commands = filter_set(ignore, no_hist)
    /\ skip = FALSE
    /\ current_cmd = << >>
    /\ cmd_count = EmptyMap
    /\ nread = 0
    /\ last_line = << >>
    /\ extracted = EmptyMap
    /\ ipc = "reading"
    /\ TokIdle
    /\ SplitIdle
    /\ DetectIdle
    /\ PathIdle
    /\ BarIdle
    /\ SubIdle
    /\ RankIdle
    /\ CliIdle

LegacyReadLine ==
    /\ ipc = "reading"
    /\ reader = "legacy"
    /\ nread < MaxLines
    /\ \E line_bytes \in ShellLines :
          LET r == legacy_read_line(line_bytes, skip, cmd_count, filtered_commands, no_hist)
          IN  /\ skip' = r.skip
              /\ cmd_count' = r.cmd_count
              /\ extracted' = Record(extracted, r.counted)
              /\ last_line' = line_bytes
    /\ nread' = nread + 1
    /\ UNCHANGED <<reader, ignore, no_hist, filtered_commands, current_cmd, ipc, tokVars, splitVars, detectVars, pathVars, barVars, subVars, rankVars, cliVars>>

LegacyEndOfStream ==
    /\ ipc = "reading"
    /\ reader = "legacy"
    /\ ipc' = "done"
    /\ UNCHANGED <<reader, ignore, no_hist, filtered_commands, skip, current_cmd, cmd_count,
                   nread, last_line, extracted, tokVars, splitVars, detectVars, pathVars, barVars, subVars, rankVars, cliVars>>

LegacyNext ==
    \/ LegacyReadLine
    \/ LegacyEndOfStream

SpecLegacy == LegacyInit /\ [][LegacyNext]_vars

-----------------------------------------------------------------------------
(* The SplitCommands iterator, one call of next() per step. *)

SplitAlphabet == {"a", " ", "|", "'", "\""}

RECURSIVE StringsUpTo(_)
StringsUpTo(n) ==
    IF n = 0 THEN { << >> }
    ELSE LET shorter == StringsUpTo(n - 1)
         IN  shorter \cup { Append(str, c) : str \in shorter, c \in SplitAlphabet }

l_echo_foo_bar_grep ==
    <<"e", "c", "h", "o", " ", "'", "f", "o", "o", " ", "|", " ", "b", "a", "r", "'", " ",
      "|", " ", "g", "r", "e", "p", " ", "b", "a", "z">>

SplitLines == StringsUpTo(MaxSplitLen) \cup {l_echo_foo_bar_grep, l_ls_grep_foo, l_dquoted_ls}

SplitInit ==
    /\ split_input \in SplitLines
    /\ split_remaining = split_input
    /\ yielded = << >>
    /\ nones = 0
    /\ spc = "iterating"
    /\ TokIdle
    /\ IngestIdle
    /\ DetectIdle
    /\ PathIdle
    /\ BarIdle
    /\ SubIdle
    /\ RankIdle
    /\ CliIdle

SplitNext ==
    /\ spc = "iterating"
    /\ nones < MaxNones
    /\ LET r == split_commands_next(split_remaining)
       IN  /\ split_remaining' = r.remaining
           /\ yielded' = yielded \o r.item
           /\ nones' = IF r.item = None THEN nones + 1 ELSE nones
    /\ UNCHANGED <<split_input, spc, tokVars, ingestVars, detectVars, pathVars, barVars, subVars, rankVars, cliVars>>

SpecSplit == SplitInit /\ [][SplitNext]_vars

\* for subcommand in SplitCommands::new(line): the loop calls next() again
\* for as long as the last call returned an item.
SpecSplitLoop == SplitInit /\ [][SplitNext]_vars /\ WF_vars(SplitNext)

-----------------------------------------------------------------------------
(* The Dialect Detector, one physical line per step. *)

dl_cmd == p_cmd \o w_ls
dl_indented_cmd == <<" ", " ">> \o p_cmd \o w_ls
dl_when == d_when \o <<"1">>
dl_paths_item == <<" ", " ", "-", " ", "/", "p">>
dl_zsh == <<":", " ", "1", ":", "0", ";", "l", "s">>
dl_shifted_zsh == <<" ", ":", " ", "1", ";", "l", "s">>

DetectLines ==
    { dl_cmd, dl_indented_cmd, dl_when, f_when, f_paths, dl_paths_item, dl_zsh,
      dl_shifted_zsh, l_zsh_metadata, l_git_status, l_blank, l_empty, f_undecodable_when }

path_bash_in_fish_dir == <<"f", "i", "s", "h", "/", "b", "a", "s", "h">>
path_fish_history == <<"h", "/", "f", "i", "s", "h", "_", "h", "i", "s", "t", "o", "r", "y">>

DetectPaths == {path_bash_in_fish_dir, path_fish_history}

DetectInit ==
    /\ fish_score = 0
    /\ shell_score = 0
    /\ inspected = 0
    /\ dline = << >>
    /\ dread = 0
    /\ format = "none"
    /\ dlines = EmptyMap
    /\ dpath \in DetectPaths
    /\ dpc = "scanning"
    /\ TokIdle
    /\ IngestIdle
    /\ SplitIdle
    /\ PathIdle
    /\ BarIdle
    /\ SubIdle
    /\ RankIdle
    /\ CliIdle

\* One line of the stream goes through the loop body.
DetectRead(line_bytes) ==
    LET r == detect_read_line(line_bytes, fish_score, shell_score, inspected)
    IN  /\ dline' = line_bytes
        /\ dlines' = Record(dlines, <<line_bytes>>)
        /\ fish_score' = r.fish
        /\ shell_score' = r.shell
        /\ inspected' = r.inspected
        /\ dpc' = IF r.stop THEN "decided" ELSE "scanning"
        /\ format' = IF r.stop THEN detect_format(r.fish, r.shell) ELSE format
        /\ dread' = dread + 1
        /\ UNCHANGED <<dpath, tokVars, ingestVars, splitVars, pathVars, barVars, subVars, rankVars, cliVars>>

DetectReadLine ==
    /\ dpc = "scanning"
    /\ dread < MaxDetectLines
    /\ \E line_bytes \in DetectLines : DetectRead(line_bytes)

DetectEndOfFile ==
    /\ dpc = "scanning"
    /\ format' = detect_format(fish_score, shell_score)
    /\ dpc' = "decided"
    /\ UNCHANGED <<fish_score, shell_score, inspected, dline, dread, dlines, dpath, tokVars,
                   ingestVars, splitVars, pathVars, barVars, subVars, rankVars, cliVars>>

DetectNext ==
    \/ DetectReadLine
    \/ DetectEndOfFile

SpecDetect == DetectInit /\ [][DetectNext]_vars

-----------------------------------------------------------------------------
(* The Dialect Detector on long streams of few kinds of line, so that the   *)
(* limit on inspected lines is met.                                         *)

LongStreamLines == { dl_cmd, l_git_status, l_blank, f_undecodable_when }

DetectReadLongLine ==
    /\ dpc = "scanning"
    /\ \E line_bytes \in LongStreamLines :
          /\ (is_utf8(line_bytes) /\ trim(lines_strip(line_bytes)) # << >>)
                \/ dread - inspected < MaxSkippedLines
          /\ DetectRead(line_bytes)

DetectLongNext ==
    \/ DetectReadLongLine
    \/ DetectEndOfFile

SpecDetectLong == DetectInit /\ [][DetectLongNext]_vars

-----------------------------------------------------------------------------
(* The Shell reader's two paths over the same bytes: count_from_bytes, then *)
(* count_from_reader.                                                       *)

LF == <<"\n">>
CRLF == <<"\r", "\n">>

FileLineTexts ==
    { l_git_status, l_ls_grep_foo, l_ls_backslash, l_zsh_metadata, l_undecodable, l_empty }

RECURSIVE TerminatedLines(_)
TerminatedLines(n) ==
    IF n = 0 THEN { << >> }
    ELSE LET shorter == TerminatedLines(n - 1)
         IN  shorter \cup { f \o t \o e : f \in shorter, t \in FileLineTexts, e \in {LF, CRLF} }

\* Files of up to n lines, the last one with or without its newline.
Files(n) ==
    TerminatedLines(n)
    \cup { f \o t : f \in TerminatedLines(n - 1), t \in FileLineTexts \ {l_empty} }

PathInit ==
    /\ file_bytes \in Files(MaxFileLines)
    /\ bytes_rest = Some(file_bytes)
    /\ bytes_skip = FALSE
    /\ bytes_count = EmptyMap
    /\ reader_rest = file_bytes
    /\ reader_skip = FALSE
    /\ reader_count = EmptyMap
    /\ ppc = "bytes"
    /\ reader = "shell"
    /\ ignore \in IgnoreLists
    /\ no_hist \in BOOLEAN
    /\ filtered_commands = filter_set(ignore, no_hist)
    /\ skip = FALSE
    /\ current_cmd = << >>
    /\ cmd_count = EmptyMap
    /\ nread = 0
    /\ last_line = << >>
    /\ extracted = EmptyMap
    /\ ipc = "idle"
    /\ TokIdle
    /\ SplitIdle
    /\ DetectIdle
    /\ BarIdle
    /\ SubIdle
    /\ RankIdle
    /\ CliIdle

\* One iteration of the for loop of count_from_bytes; the loop ends after
\* the last piece.
CountFromBytesStep ==
    /\ ppc = "bytes"
    /\ LET n == bytes_split_next(bytes_rest[1])
           r == shell_read_line(n.piece, bytes_skip, bytes_count, filtered_commands, no_hist)
       IN  /\ bytes_rest' = n.rest
           /\ bytes_skip' = r.skip
           /\ bytes_count' = r.cmd_count
           /\ ppc' = IF n.rest = None THEN "reader" ELSE "bytes"
    /\ UNCHANGED <<file_bytes, reader_rest, reader_skip, reader_count, tokVars, ingestVars,
                   splitVars, detectVars, barVars, subVars, rankVars, cliVars>>

\* One iteration of the loop of count_from_reader; bytes_read == 0 breaks.
CountFromReaderStep ==
    /\ ppc = "reader"
    /\ LET n == read_until(reader_rest)
       IN  IF n.line_buf = << >>
           THEN /\ ppc' = "done"
                /\ UNCHANGED <<reader_rest, reader_skip, reader_count>>
           ELSE LET r == reader_read_line(n.line_buf, reader_skip, reader_count,
                                          filtered_commands, no_hist)
                IN  /\ reader_rest' = n.rest
                    /\ reader_skip' = r.skip
                    /\ reader_count' = r.cmd_count
                    /\ ppc' = "reader"
    /\ UNCHANGED <<file_bytes, bytes_rest, bytes_skip, bytes_count, tokVars, ingestVars,
                   splitVars, detectVars, barVars, subVars, rankVars, cliVars>>

PathNext ==
    \/ CountFromBytesStep
    \/ CountFromReaderStep

SpecPaths == PathInit /\ [][PathNext]_vars

-----------------------------------------------------------------------------
(* render_bars, one item per step. *)

\* Lists of values sorted by value, descending, as the ranking gives them.
RECURSIVE ItemLists(_)
ItemLists(n) ==
    IF n = 0 THEN { << >> }
    ELSE LET shorter == ItemLists(n - 1)
         IN  shorter
             \cup { Append(l, v) : l \in { x \in shorter : Len(x) = n - 1 },
                                   v \in 0..MaxValue }

Descending(l) == \A i \in 1..(Len(l) - 1) : l[i] >= l[i + 1]

BarInit ==
    /\ items \in { l \in ItemLists(MaxItems) : Descending(l) }
    /\ config_size \in 0..MaxBarSize
    /\ show_percentage \in BOOLEAN
    /\ show_cumulative \in BOOLEAN
    /\ item_index = 0
    /\ inv_cumu = sum(items)
    /\ unfilled_count = 0
    /\ semifilled_count = 0
    /\ filled_count = 0
    /\ bar_str = << >>
    /\ bpc = "rendering"
    /\ TokIdle
    /\ IngestIdle
    /\ SplitIdle
    /\ DetectIdle
    /\ PathIdle
    /\ SubIdle
    /\ RankIdle
    /\ CliIdle

\* One iteration of the loop over items.
RenderItem ==
    /\ bpc = "rendering"
    /\ items # << >>
    /\ sum(items) # 0
    /\ item_index < Len(items)
    /\ item_index' = item_index + 1
    /\ IF config_size > 0
       THEN \E tie_semi, tie_filled \in BOOLEAN :
               LET seg == render_bar_segment(items[item_index + 1], inv_cumu, sum(items),
                                             config_size, show_cumulative, show_percentage,
                                             tie_semi, tie_filled)
               IN  /\ unfilled_count' = seg.unfilled_count
                   /\ semifilled_count' = seg.semifilled_count
                   /\ filled_count' = seg.filled_count
                   /\ bar_str' = seg.bar_str
                   /\ bpc' = IF seg.overflow THEN "panic" ELSE "rendering"
                   /\ inv_cumu' = inv_cumu - items[item_index + 1]
       ELSE /\ unfilled_count' = 0
            /\ semifilled_count' = 0
            /\ filled_count' = 0
            /\ bar_str' = << >>
            /\ UNCHANGED <<bpc, inv_cumu>>
    /\ UNCHANGED <<items, config_size, show_percentage, show_cumulative, tokVars, ingestVars,
                   splitVars, detectVars, pathVars, subVars, rankVars, cliVars>>

\* The early returns and the end of the loop.
RenderReturn ==
    /\ bpc = "rendering"
    /\ items = << >> \/ sum(items) = 0 \/ item_index = Len(items)
    /\ bpc' = "returned"
    /\ UNCHANGED <<items, config_size, show_percentage, show_cumulative, item_index,
                   inv_cumu, unfilled_count, semifilled_count, filled_count, bar_str,
                   tokVars, ingestVars, splitVars, detectVars, pathVars, subVars, rankVars, cliVars>>

BarNext ==
    \/ RenderItem
    \/ RenderReturn

SpecBars == BarInit /\ [][BarNext]_vars

-----------------------------------------------------------------------------
(* src/utils.rs: get_first_word with subcommand tracking *)

w_status == <<"s", "t", "a", "t", "u", "s">>
w_dash_v == <<"-", "v">>
w_dash_short == <<"-", "-", "s", "h", "o", "r", "t">>
w_escaped_git == <<"\\", "g", "i", "t">>
w_assignment == <<"F", "=", "b">>

SUBCOMMAND_TOOLS ==
    { w_git,
      <<"c", "a", "r", "g", "o">>,
      <<"n", "p", "m">>,
      <<"y", "a", "r", "n">>,
      <<"p", "n", "p", "m">>,
      <<"d", "o", "c", "k", "e", "r">>,
      <<"k", "u", "b", "e", "c", "t", "l">>,
      w_systemctl,
      w_apt,
      <<"d", "n", "f">>,
      <<"p", "a", "c", "m", "a", "n">>,
      <<"b", "r", "e", "w">>,
      <<"n", "i", "x">>,
      <<"r", "u", "s", "t", "u", "p">>,
      <<"g", "o">>,
      <<"p", "i", "p">>,
      <<"p", "o", "e", "t", "r", "y">> }

\* cmd.split_whitespace(), collected
RECURSIVE split_whitespace_from(_, _)
split_whitespace_from(s, i0) ==
    LET i1 == skip_whitespace(s, i0)
    IN  IF i1 > Len(s) THEN << >>
        ELSE LET i2 == word_end(s, i1)
             IN  <<SubSeq(s, i1, i2 - 1)>> \o split_whitespace_from(s, i2)

split_whitespace(s) == split_whitespace_from(s, 1)

\* w.contains('=') && !w.starts_with('$')
is_assignment_word(w) == contains(w, "=") /\ ~starts_with(w, "$")

\* w.starts_with('\\') && w.len() > 1
is_escaped_word(w) == starts_with(w, "\\") /\ Len(w) > 1

takes_subcommand_any(sub) == TRUE

\* !sub.starts_with('-')
takes_subcommand(sub) == ~starts_with(sub, "-")

\* The while loop over words, from the k-th word on; the empty string when
\* the words run out.
RECURSIVE utils_first_word_from(_, _, _, _)
utils_first_word_from(words, k, filter, track) ==
    IF k > Len(words) THEN << >>
    ELSE
      LET w == words[k]
          word == IF is_escaped_word(w) THEN Tail(w) ELSE w
      IN  IF w \in filter THEN utils_first_word_from(words, k + 1, filter, track)
          ELSE IF is_assignment_word(w)
          THEN utils_first_word_from(words, k + 1, filter, track)
          ELSE IF is_escaped_word(w) /\ Tail(w) \in filter
          THEN utils_first_word_from(words, k + 1, filter, track)
          ELSE IF /\ track
                  /\ word \in SUBCOMMAND_TOOLS
                  /\ k < Len(words)
                  /\ takes_subcommand(words[k + 1])
          THEN word \o SP \o words[k + 1]
          ELSE word

utils_get_first_word(s, filter, track) ==
    utils_first_word_from(split_whitespace(s), 1, filter, track)

SubWords ==
    { w_git, w_ls, w_sudo, w_status, w_dash_v, w_dash_short, w_escaped_git, w_assignment }

Separators == { SP, <<" ", "\t">> }

RECURSIVE JoinWith(_, _)
JoinWith(ws, sep) ==
    IF ws = << >> THEN << >>
    ELSE IF Len(ws) = 1 THEN ws[1]
    ELSE ws[1] \o sep \o JoinWith(Tail(ws), sep)

RECURSIVE SubWordSeqs(_)
SubWordSeqs(n) ==
    IF n = 0 THEN { << >> }
    ELSE LET shorter == SubWordSeqs(n - 1)
         IN  shorter \cup { Append(ws, w) : ws \in shorter, w \in SubWords }

SubCommands == { JoinWith(ws, sep) : ws \in SubWordSeqs(MaxSubWords), sep \in Separators }

SubFilters == { {}, {w_sudo} }

SubInit ==
    /\ utils_cmd \in SubCommands
    /\ utils_filtered \in SubFilters
    /\ track_subcommands \in BOOLEAN
    /\ utils_key = << >>
    /\ upc = "ready"
    /\ TokIdle
    /\ IngestIdle
    /\ SplitIdle
    /\ DetectIdle
    /\ PathIdle
    /\ BarIdle
    /\ RankIdle
    /\ CliIdle

CallUtilsGetFirstWord ==
    /\ upc = "ready"
    /\ utils_key' = utils_get_first_word(utils_cmd, utils_filtered, track_subcommands)
    /\ upc' = "done"
    /\ UNCHANGED <<utils_cmd, utils_filtered, track_subcommands, tokVars, ingestVars,
                   splitVars, detectVars, pathVars, barVars, rankVars, cliVars>>

SubNext == CallUtilsGetFirstWord

SpecSub == SubInit /\ [][SubNext]_vars

-----------------------------------------------------------------------------
(* src/app/mod.rs: filter_and_sort_commands and output_limit *)

w_bash == <<"b", "a", "s", "h">>
w_zsh == <<"z", "s", "h">>
w_lsd == <<"l", "s", "d">>

Alphabet ==
    <<"a", "b", "c", "d", "e", "f", "g", "h", "i", "j", "k", "l", "m",
      "n", "o", "p", "q", "r", "s", "t", "u", "v", "w", "x", "y", "z">>

\* the byte of a lower-case ASCII letter
byte_of(c) == 96 + (CHOOSE i \in 1..Len(Alphabet) : Alphabet[i] = c)

\* usize::cmp
usize_cmp(a, b) == IF a < b THEN "Less" ELSE IF a > b THEN "Greater" ELSE "Equal"

\* String::cmp: lexicographic on bytes, a proper prefix first
RECURSIVE str_cmp(_, _)
str_cmp(a, b) ==
    IF a = << >> /\ b = << >> THEN "Equal"
    ELSE IF a = << >> THEN "Less"
    ELSE IF b = << >> THEN "Greater"
    ELSE IF byte_of(a[1]) < byte_of(b[1]) THEN "Less"
    ELSE IF byte_of(a[1]) > byte_of(b[1]) THEN "Greater"
    ELSE str_cmp(Tail(a), Tail(b))

rank_cmp_count_only(a, b) == usize_cmp(b.count, a.count)

\* b.count.cmp(&a.count).then_with(|| a.name.cmp(&b.name))
rank_cmp(a, b) ==
    IF usize_cmp(b.count, a.count) # "Equal" THEN usize_cmp(b.count, a.count)
    ELSE str_cmp(a.name, b.name)

\* x put into the sorted sequence sorted, after the elements not greater than it
RECURSIVE sort_insert(_, _)
sort_insert(sorted, x) ==
    IF sorted = << >> THEN <<x>>
    ELSE IF rank_cmp(x, sorted[1]) = "Less" THEN <<x>> \o sorted
    ELSE <<sorted[1]>> \o sort_insert(Tail(sorted), x)

\* commands.sort_unstable_by(..): no two entries of the map compare Equal under
\* rank_cmp, so the result does not depend on how equal elements are placed.
RECURSIVE sort_unstable_by(_)
sort_unstable_by(v) ==
    IF v = << >> THEN << >>
    ELSE sort_insert(sort_unstable_by(SubSeq(v, 1, Len(v) - 1)), v[Len(v)])

\* .filter(|(_, count)| *count > more_than).map(..).collect(), over the
\* entries in the order into_iter yields them
RECURSIVE filter_collect(_, _, _)
filter_collect(counts, iter, threshold) ==
    IF iter = << >> THEN << >>
    ELSE LET rest == filter_collect(counts, Tail(iter), threshold)
         IN  IF counts[iter[1]] > threshold
             THEN <<[name |-> iter[1], count |-> counts[iter[1]]]>> \o rest
             ELSE rest

filter_and_sort_commands(counts, iter, threshold) ==
    sort_unstable_by(filter_collect(counts, iter, threshold))

output_limit(total_commands, every, limit) ==
    IF every THEN total_commands
    ELSE IF limit < total_commands THEN limit ELSE total_commands

\* HashMap::into_iter yields the entries in an unspecified order
IterOrders(counts) ==
    { iter \in [1..Cardinality(DOMAIN counts) -> DOMAIN counts] :
        \A i, j \in DOMAIN iter : i # j => iter[i] # iter[j] }

RankNames == { w_bash, w_zsh, w_ls, w_lsd }

CountMaps == UNION { [S -> 1..MaxCommandCount] : S \in SUBSET RankNames }

RankInit ==
    /\ command_counts \in CountMaps
    /\ run_more_than \in 0..MaxCommandCount
    /\ run_all \in BOOLEAN
    /\ run_count \in 0..MaxRows
    /\ commands = << >>
    /\ shown_rows = 0
    /\ rpc = "loaded"
    /\ TokIdle
    /\ IngestIdle
    /\ SplitIdle
    /\ DetectIdle
    /\ PathIdle
    /\ BarIdle
    /\ SubIdle
    /\ CliIdle

FilterAndSortCommands ==
    /\ rpc = "loaded"
    /\ \E iter \in IterOrders(command_counts) :
         commands' = filter_and_sort_commands(command_counts, iter, run_more_than)
    /\ rpc' = "ranked"
    /\ UNCHANGED <<command_counts, run_more_than, run_all, run_count, shown_rows, tokVars,
                   ingestVars, splitVars, detectVars, pathVars, barVars, subVars, cliVars>>

OutputLimit ==
    /\ rpc = "ranked"
    /\ shown_rows' = output_limit(Len(commands), run_all, run_count)
    /\ rpc' = "limited"
    /\ UNCHANGED <<command_counts, run_more_than, run_all, run_count, commands, tokVars,
                   ingestVars, splitVars, detectVars, pathVars, barVars, subVars, cliVars>>

RankNext == FilterAndSortCommands \/ OutputLimit

SpecRank == RankInit /\ [][RankNext]_vars

-----------------------------------------------------------------------------
(* src/interface/cli.rs and src/cli.rs: Config::from_args *)

a_f == <<"-", "f">>
a_c == <<"-", "c">>
a_a == <<"-", "a">>
a_b == <<"-", "b">>
a_config == <<"-", "-", "c", "o", "n", "f", "i", "g">>
a_one == <<"1">>
a_two == <<"2">>
p_F == <<"F">>
p_missing == <<"m", "i", "s", "s", "i", "n", "g">>
p_hist == <<"h", "i", "s", "t">>
p_histfile == <<"~", "/", ".", "b", "a", "s", "h", "_", "h", "i", "s", "t", "o", "r", "y">>

DigitChars == <<"0", "1", "2", "3", "4", "5", "6", "7", "8", "9">>

is_digit(c) == \E k \in 1..Len(DigitChars) : DigitChars[k] = c

digit_value(c) == (CHOOSE k \in 1..Len(DigitChars) : DigitChars[k] = c) - 1

RECURSIVE digits_value(_, _)
digits_value(s, acc) ==
    IF s = << >> THEN acc ELSE digits_value(Tail(s), acc * 10 + digit_value(s[1]))

\* arg.parse::<usize>(): an optional `+`, then one or more digits; None is Err
parse_usize(arg) ==
    LET digits == IF starts_with(arg, "+") THEN Tail(arg) ELSE arg
    IN  IF digits # << >> /\ \A k \in 1..Len(digits) : is_digit(digits[k])
        THEN Some(digits_value(digits, 0))
        ELSE None

\* Ok(val) if val > 0, else Err
parse_usize_argument(arg) ==
    LET parsed == parse_usize(arg)
    IN  IF parsed # None /\ parsed[1] > 0 THEN parsed ELSE None

\* FileConfig::load(path): the file F exists, no other path does
FileConfig_load(file_path, f_config) == IF file_path = p_F THEN Some(f_config) ELSE None

Config_default == [file |-> << >>, count |-> 25, all |-> FALSE, bar_size |-> 25]

CliOverrides_default ==
    [file |-> None, count |-> None, all |-> FALSE, bar_size |-> None, config_path |-> None]

\* interface/cli.rs and cli.rs: the fields of the file that are set replace
\* the fields of the configuration
apply_file_config(self, file_config) ==
    [self EXCEPT
       !.bar_size = IF file_config.bar_size # None THEN file_config.bar_size[1] ELSE @,
       !.count = IF file_config.count # None THEN file_config.count[1] ELSE @]

apply_cli_overrides(self, overrides) ==
    [self EXCEPT
       !.file = IF overrides.file # None THEN overrides.file[1] ELSE @,
       !.count = IF overrides.count # None THEN overrides.count[1] ELSE @,
       !.all = IF overrides.all THEN TRUE ELSE @,
       !.bar_size = IF overrides.bar_size # None THEN overrides.bar_size[1] ELSE @]

Failed(st) == [st EXCEPT !.err = TRUE]

\* interface/cli.rs: one iteration of the while loop; st is [ov, i, err]
interface_parse_arg(argv, st) ==
    LET flag == argv[st.i]
        has_value == st.i + 1 <= Len(argv)
        value == argv[st.i + 1]
        ov == st.ov
    IN  IF flag = a_f
        THEN IF ~has_value \/ ov.file # None THEN Failed(st)
             ELSE [st EXCEPT !.ov.file = Some(value), !.i = @ + 2]
        ELSE IF flag = a_c
        THEN IF ~has_value \/ parse_usize_argument(value) = None THEN Failed(st)
             ELSE [st EXCEPT !.ov.count = parse_usize_argument(value), !.i = @ + 2]
        ELSE IF flag = a_a
        THEN [st EXCEPT !.ov.all = TRUE, !.i = @ + 1]
        ELSE IF flag = a_b
        THEN IF ~has_value \/ parse_usize_argument(value) = None THEN Failed(st)
             ELSE [st EXCEPT !.ov.bar_size = parse_usize_argument(value), !.i = @ + 2]
        ELSE IF flag = a_config
        THEN IF ~has_value THEN Failed(st)
             ELSE [st EXCEPT !.ov.config_path = Some(value), !.i = @ + 2]
        ELSE IF starts_with(flag, "-") \/ ov.file # None THEN Failed(st)
        ELSE [st EXCEPT !.ov.file = Some(flag), !.i = @ + 1]

\* interface/cli.rs: after the loop, up to apply_cli_overrides; None is Err
interface_build_config(ov, d_config, f_config) ==
    LET c0 == Config_default
        c1 == IF d_config # None THEN apply_file_config(c0, d_config[1]) ELSE c0
        loaded == IF ov.config_path # None THEN FileConfig_load(ov.config_path[1], f_config)
                  ELSE None
    IN  IF ov.config_path # None /\ loaded = None THEN None
        ELSE LET c2 == IF loaded # None THEN apply_file_config(c1, loaded[1]) ELSE c1
             IN  Some(apply_cli_overrides(c2, ov))

\* cli.rs: one iteration of the while loop; st is [cfg, i, err]
legacy_parse_arg(argv, st, f_config) ==
    LET flag == argv[st.i]
        has_value == st.i + 1 <= Len(argv)
        value == argv[st.i + 1]
    IN  IF flag = a_f
        THEN IF has_value THEN [st EXCEPT !.cfg.file = value, !.i = @ + 2]
             ELSE [st EXCEPT !.i = @ + 2]
        ELSE IF flag = a_c
        THEN IF ~has_value THEN [st EXCEPT !.i = @ + 2]
             ELSE IF parse_usize_argument(value) = None THEN Failed(st)
             ELSE [st EXCEPT !.cfg.count = parse_usize_argument(value)[1], !.i = @ + 2]
        ELSE IF flag = a_a
        THEN [st EXCEPT !.cfg.all = TRUE, !.i = @ + 1]
        ELSE IF flag = a_b
        THEN IF ~has_value THEN [st EXCEPT !.i = @ + 2]
             ELSE IF parse_usize_argument(value) = None THEN Failed(st)
             ELSE [st EXCEPT !.cfg.bar_size = parse_usize_argument(value)[1], !.i = @ + 2]
        ELSE IF flag = a_config
        THEN IF ~has_value THEN [st EXCEPT !.i = @ + 2]
             ELSE IF FileConfig_load(value, f_config) = None THEN Failed(st)
             ELSE [st EXCEPT !.cfg = apply_file_config(@, FileConfig_load(value, f_config)[1]),
                             !.i = @ + 2]
        ELSE Failed(st)

ArgUnits ==
    { <<a_c, a_one>>, <<a_c, a_two>>, <<a_b, a_one>>, <<a_config, p_F>>,
      <<a_config, p_missing>>, <<a_a>>, <<a_f, p_hist>>, <<a_c>>, <<p_hist>> }

RECURSIVE ArgLists(_)
ArgLists(n) ==
    IF n = 0 THEN { << >> }
    ELSE LET shorter == ArgLists(n - 1)
         IN  shorter \cup { l \o u : l \in shorter, u \in ArgUnits }

FileConfigs == [count : {None, Some(4)}, bar_size : {None, Some(9)}]

DefaultConfigs == { None, Some([count |-> Some(7), bar_size |-> None]) }

\* get_histfile(): the history file it finds, or Err
HistfileResults == { None, Some(p_histfile) }

CliInit ==
    /\ args \in ArgLists(MaxArgs)
    /\ fs_config \in FileConfigs
    /\ default_config \in DefaultConfigs
    /\ arg_i = 1
    /\ cli_overrides = CliOverrides_default
    /\ config = Config_default
    /\ cpc = "parsing"
    /\ TokIdle
    /\ IngestIdle
    /\ SplitIdle
    /\ DetectIdle
    /\ PathIdle
    /\ BarIdle
    /\ SubIdle
    /\ RankIdle

ParseArg ==
    /\ cpc = "parsing"
    /\ arg_i <= Len(args)
    /\ LET st == interface_parse_arg(args, [ov |-> cli_overrides, i |-> arg_i, err |-> FALSE])
       IN  /\ cli_overrides' = st.ov
           /\ arg_i' = st.i
           /\ cpc' = IF st.err THEN "failed" ELSE "parsing"
    /\ UNCHANGED <<args, fs_config, default_config, config, tokVars, ingestVars, splitVars,
                   detectVars, pathVars, barVars, subVars, rankVars>>

BuildConfig ==
    /\ cpc = "parsing"
    /\ arg_i > Len(args)
    /\ LET built == interface_build_config(cli_overrides, default_config, fs_config)
       IN  IF built = None
           THEN cpc' = "failed" /\ UNCHANGED config
           ELSE IF built[1].file # << >>
           THEN cpc' = "done" /\ config' = built[1]
           ELSE \E histfile \in HistfileResults :
                  IF histfile = None
                  THEN cpc' = "failed" /\ config' = built[1]
                  ELSE cpc' = "done" /\ config' = [built[1] EXCEPT !.file = histfile[1]]
    /\ UNCHANGED <<args, fs_config, default_config, arg_i, cli_overrides, tokVars, ingestVars,
                   splitVars, detectVars, pathVars, barVars, subVars, rankVars>>

CliNext == ParseArg \/ BuildConfig

SpecCli == CliInit /\ [][CliNext]_vars

LegacyCliInit ==
    /\ args \in ArgLists(MaxArgs)
    /\ fs_config \in FileConfigs
    /\ default_config \in DefaultConfigs
    /\ arg_i = 1
    /\ cli_overrides = << >>
    /\ config = Config_default
    /\ cpc = "start"
    /\ TokIdle
    /\ IngestIdle
    /\ SplitIdle
    /\ DetectIdle
    /\ PathIdle
    /\ BarIdle
    /\ SubIdle
    /\ RankIdle

LegacyLoadDefault ==
    /\ cpc = "start"
    /\ config' = IF default_config # None THEN apply_file_config(config, default_config[1])
                 ELSE config
    /\ cpc' = "parsing"
    /\ UNCHANGED <<args, fs_config, default_config, arg_i, cli_overrides, tokVars, ingestVars,
                   splitVars, detectVars, pathVars, barVars, subVars, rankVars>>

LegacyParseArg ==
    /\ cpc = "parsing"
    /\ arg_i <= Len(args)
    /\ LET st == legacy_parse_arg(args, [cfg |-> config, i |-> arg_i, err |-> FALSE], fs_config)
       IN  /\ config' = st.cfg
           /\ arg_i' = st.i
           /\ cpc' = IF st.err THEN "failed" ELSE "parsing"
    /\ UNCHANGED <<args, fs_config, default_config, cli_overrides, tokVars, ingestVars,
                   splitVars, detectVars, pathVars, barVars, subVars, rankVars>>

LegacyFinish ==
    /\ cpc = "parsing"
    /\ arg_i > Len(args)
    /\ IF config.file # << >>
       THEN cpc' = "done" /\ UNCHANGED config
       ELSE \E histfile \in HistfileResults :
              IF histfile = None
              THEN cpc' = "failed" /\ UNCHANGED config
              ELSE cpc' = "done" /\ config' = [config EXCEPT !.file = histfile[1]]
    /\ UNCHANGED <<args, fs_config, default_config, arg_i, cli_overrides, tokVars, ingestVars,
                   splitVars, detectVars, pathVars, barVars, subVars, rankVars>>

LegacyCliNext == LegacyLoadDefault \/ LegacyParseArg \/ LegacyFinish

SpecCliLegacy == LegacyCliInit /\ [][LegacyCliNext]_vars

-----------------------------------------------------------------------------
(* src/history/shell.rs: the skip flag of process_line, on a stream that     *)
(* mixes plain lines, zsh extended lines and continuation lines.             *)

l_zsh_ls_backslash == <<":", " ", "1", ":", "0", ";", "l", "s", " ", "\\">>
l_zsh_metadata_backslash == <<":", " ", "1", "2", "\\">>
l_zsh_echo_semi_ls ==
    <<":", " ", "1", ":", "0", ";", "e", "c", "h", "o", " ", "a", ";", " ", "l", "s">>
l_cd_semi_ls == <<"c", "d", " ", "x", ";", " ", "l", "s">>

ShellStateLines ==
    { l_git_status, l_ls_grep_foo, l_ls_backslash, l_zsh_git_log, l_zsh_metadata,
      l_zsh_ls_backslash, l_zsh_metadata_backslash, l_zsh_echo_semi_ls, l_cd_semi_ls,
      l_undecodable }

ShellInit == Init /\ reader = "shell"

ShellReadStateLine ==
    /\ ipc = "reading"
    /\ reader = "shell"
    /\ nread < MaxLines
    /\ \E line_bytes \in ShellStateLines :
          LET r == shell_read_line(line_bytes, skip, cmd_count, filtered_commands, no_hist)
          IN  /\ skip' = r.skip
              /\ cmd_count' = r.cmd_count
              /\ extracted' = Record(extracted, r.counted)
              /\ last_line' = line_bytes
    /\ nread' = nread + 1
    /\ UNCHANGED <<reader, ignore, no_hist, filtered_commands, current_cmd, ipc, tokVars,
                   splitVars, detectVars, pathVars, barVars, subVars, rankVars, cliVars>>

ShellNext == ShellReadStateLine \/ EndOfStream

SpecShell == ShellInit /\ [][ShellNext]_vars

-----------------------------------------------------------------------------
(* src/history/fish.rs: count_from_bytes on records whose metadata lines     *)
(* may hold bytes that are not UTF-8.                                        *)

f_echo_hello_backslash ==
    p_cmd \o <<"e", "c", "h", "o", " ", "h", "e", "l", "l", "o", "\\">>
f_world == <<" ", " ", "w", "o", "r", "l", "d">>
f_undecodable_item == p_item \o <<INVALID>>
f_undecodable_cmd == p_cmd \o l_undecodable

FishRecordLines ==
    { f_echo_hello_backslash, f_world, f_when, f_undecodable_when, f_undecodable_item,
      f_undecodable_cmd, f_git_status }

FishInit == Init /\ reader = "fish"

FishReadRecordLine ==
    /\ ipc = "reading"
    /\ reader = "fish"
    /\ nread < MaxLines
    /\ \E line_bytes \in FishRecordLines :
          LET r == fish_read_line(line_bytes, current_cmd, cmd_count, filtered_commands,
                                  no_hist)
          IN  /\ current_cmd' = r.current_cmd
              /\ cmd_count' = r.cmd_count
              /\ extracted' = Record(extracted, r.counted)
              /\ last_line' = line_bytes
    /\ nread' = nread + 1
    /\ UNCHANGED <<reader, ignore, no_hist, filtered_commands, skip, ipc, tokVars, splitVars,
                   detectVars, pathVars, barVars, subVars, rankVars, cliVars>>

FishNext == FishReadRecordLine \/ EndOfStream

SpecFish == FishInit /\ [][FishNext]_vars

-----------------------------------------------------------------------------
(* src/history/tcsh.rs and src/history/powershell.rs: the two line readers   *)
(* on their own.                                                             *)

SimpleInit == Init /\ reader \in {"tcsh", "powershell"}

SimpleNext == PowerShellReadLine \/ TcshReadLine \/ EndOfStream

SpecSimple == SimpleInit /\ [][SimpleNext]_vars

-----------------------------------------------------------------------------
(* The Shell, PowerShell and tcsh readers over lines with quoted pipes.     *)

l_assign_quoted_cmd == <<"F", "=", "\"", "a", "|", "b", "\"", " ", "c", "m", "d">>
l_ls_pipe == <<"l", "s", " ", "|">>

PipeLines ==
    { l_git_status, l_ls_grep_foo, l_echo_quoted_wc, l_dquoted_ls, l_assign_quoted_cmd,
      l_ls_pipe }

PipeInit == Init /\ reader \in {"shell", "powershell", "tcsh"}

PipeShellReadLine ==
    /\ ipc = "reading"
    /\ reader = "shell"
    /\ nread < MaxLines
    /\ \E line_bytes \in PipeLines :
          LET r == shell_read_line(line_bytes, skip, cmd_count, filtered_commands, no_hist)
          IN  /\ skip' = r.skip
              /\ cmd_count' = r.cmd_count
              /\ extracted' = Record(extracted, r.counted)
              /\ last_line' = line_bytes
    /\ nread' = nread + 1
    /\ UNCHANGED <<reader, ignore, no_hist, filtered_commands, current_cmd, ipc, tokVars,
                   splitVars, detectVars, pathVars, barVars, subVars, rankVars, cliVars>>

PipePowerShellReadLine ==
    /\ ipc = "reading"
    /\ reader = "powershell"
    /\ nread < MaxLines
    /\ \E line_bytes \in PipeLines :
          LET r == simple_read_line(line_bytes, cmd_count, filtered_commands, no_hist)
          IN  /\ cmd_count' = r.cmd_count
              /\ extracted' = Record(extracted, r.counted)
              /\ last_line' = line_bytes
    /\ nread' = nread + 1
    /\ UNCHANGED <<reader, ignore, no_hist, filtered_commands, skip, current_cmd, ipc,
                   tokVars, splitVars, detectVars, pathVars, barVars, subVars, rankVars, cliVars>>

PipeTcshReadLine ==
    /\ ipc = "reading"
    /\ reader = "tcsh"
    /\ nread < MaxLines
    /\ \E line_bytes \in PipeLines :
          LET r == tcsh_read_line(line_bytes, cmd_count, filtered_commands, no_hist)
          IN  /\ cmd_count' = r.cmd_count
              /\ extracted' = Record(extracted, r.counted)
              /\ last_line' = line_bytes
              /\ ipc' = IF r.failed THEN "error" ELSE ipc
    /\ nread' = nread + 1
    /\ UNCHANGED <<reader, ignore, no_hist, filtered_commands, skip, current_cmd, tokVars,
                   splitVars, detectVars, pathVars, barVars, subVars, rankVars, cliVars>>

PipeNext == PipeShellReadLine \/ PipePowerShellReadLine \/ PipeTcshReadLine \/ EndOfStream

SpecPipes == PipeInit /\ [][PipeNext]_vars

-----------------------------------------------------------------------------
(* Reading of a stage as the properties below state it: the words of a      *)
(* stage, and the name a word stands for.                                   *)

Blank == {" ", "\t", "\n", "\f", "\r"}

RECURSIVE SplitWords(_, _, _)
SplitWords(s, i, cur) ==
    IF i > Len(s) THEN (IF cur = << >> THEN << >> ELSE <<cur>>)
    ELSE IF s[i] \in Blank
         THEN (IF cur = << >> THEN << >> ELSE <<cur>>) \o SplitWords(s, i + 1, << >>)
         ELSE SplitWords(s, i + 1, Append(cur, s[i]))

WordsOf(s) == SplitWords(s, 1, << >>)

RestAfter(ws, k) == Join(SubSeq(ws, k + 1, Len(ws)))

Contains(s, c) == \E k \in 1..Len(s) : s[k] = c

\* w[a..b] is w without its leading and trailing backslashes.
StrippedAt(w, a, b) ==
    /\ a <= b + 1
    /\ \A j \in 1..(a - 1) : w[j] = "\\"
    /\ \A j \in (b + 1)..Len(w) : w[j] = "\\"
    /\ a <= b => (w[a] # "\\" /\ w[b] # "\\")

\* w[a..c-1] is the part of w[a..b] before its first backslash.
CutAt(w, a, b, c) ==
    /\ \A j \in a..(c - 1) : w[j] # "\\"
    /\ c <= b => w[c] = "\\"

\* w[d+1..c-1] is the part of w[a..c-1] after its last path separator.
TailAt(w, a, c, d) ==
    /\ \A j \in (d + 1)..(c - 1) : w[j] # "/"
    /\ d >= a => w[d] = "/"

NormalForms(w) ==
    UNION { UNION { { SubSeq(w, d + 1, c - 1) :
                        d \in { d0 \in (p[1] - 1)..(c - 1) : TailAt(w, p[1], c, d0) } } :
                    c \in { c0 \in p[1]..(p[2] + 1) : CutAt(w, p[1], p[2], c0) } } :
            p \in { q \in (1..(Len(w) + 1)) \X (0..Len(w)) : StrippedAt(w, q[1], q[2]) } }

\* The word is taken as a comment: its raw form starts with #, or it is
\* not an option marker or flag and its cleaned form starts with #.
CommentWord(w) ==
    \/ starts_with(w, "#")
    \/ /\ w # w_dashdash
       /\ ~starts_with(w, "-")
       /\ \E n \in NormalForms(w) : starts_with(n, "#")

-----------------------------------------------------------------------------
(* C4: get_first_word skips a word that is exactly --, that starts with -,  *)
(* or whose normalized form is a FilterSet member (the comment rule of C6   *)
(* taking precedence, as in the priority list of the tokenizer), and goes   *)
(* on with the next word; when every word is skipped it returns none.       *)

C4_Skipped(w, F) ==
    \/ w = w_dashdash
    \/ starts_with(w, "-")
    \/ /\ ~CommentWord(w)
       /\ \E n \in NormalForms(w) : n \in F

C4_SkipRule ==
    tpc = "done" =>
        LET ws == WordsOf(cmd)
        IN  /\ \A k \in 1..Len(ws) :
                  (\A j \in 1..k : C4_Skipped(ws[j], filtered))
                      => result = get_first_word(RestAfter(ws, k), filtered)
            /\ (cmd = ex_sudo_apt_update /\ filtered = {w_sudo, w_doas}) => result = Some(w_apt)
            /\ (cmd = ex_usr_bin_sudo_apt /\ filtered = {w_sudo, w_grep}) => result = Some(w_apt)
            /\ (cmd = ex_esc_sudo_apt /\ filtered = {w_sudo, w_doas}) => result = Some(w_apt)
            /\ (cmd = ex_doas_systemctl /\ filtered = {w_sudo, w_doas})
                  => result = Some(w_systemctl)
            /\ (cmd = ex_sudo_i /\ filtered = {w_sudo, w_doas}) => result = None
            /\ (cmd = ex_bin_grep_foo /\ filtered = {w_sudo, w_grep}) => result = Some(w_foo)

C4_Witness ==
    /\ tpc = "done"
    /\ cmd = ex_doas_systemctl
    /\ filtered = {w_sudo, w_doas}
    /\ result = Some(w_systemctl)

-----------------------------------------------------------------------------
(* C5: a word that contains = and does not start with $ is never the        *)
(* source of the returned name: it is skipped and the next word is          *)
(* considered, whatever follows the =.                                      *)

AssignmentWord(w) == Contains(w, "=") /\ ~starts_with(w, "$")

C5_AssignmentSkipped ==
    tpc = "done" =>
        LET ws == WordsOf(cmd)
        IN  \A k \in 1..Len(ws) :
                (\A j \in 1..k : AssignmentWord(ws[j]))
                    => result = get_first_word(RestAfter(ws, k), filtered)

-----------------------------------------------------------------------------
(* C6: when the scan reaches a comment word before any name was returned,   *)
(* the result for the whole stage is none and no later word is examined.    *)

C6_CommentEndsStage ==
    tpc = "done" =>
        LET ws == WordsOf(cmd)
        IN  /\ \A k \in 1..Len(ws) :
                  (/\ CommentWord(ws[k])
                   /\ get_first_word(Join(SubSeq(ws, 1, k - 1)), filtered) = None)
                      => result = None
            /\ cmd \in {ex_hash_comment, ex_indented_comment, ex_esc_comment} => result = None
            /\ (cmd = ex_sudo_hash_ls /\ w_sudo \in filtered) => result = None

C6_Witness ==
    /\ tpc = "done"
    /\ cmd = ex_sudo_hash_ls
    /\ w_sudo \in filtered
    /\ result = None

-----------------------------------------------------------------------------
(* C7: the name of a word is the word without leading and trailing          *)
(* backslashes, cut before its first remaining backslash, then cut after    *)
(* its last path separator; a word whose name is empty is skipped.          *)

\* The name is returned as it is: no later rule skips it.
Returnable(n, F) ==
    /\ n # << >>
    /\ ~starts_with(n, "#")
    /\ ~starts_with(n, "-")
    /\ n \notin F
    /\ (Contains(n, "=") => starts_with(n, "$"))

C7_NormalizationOrder ==
    tpc = "done" =>
        LET ws == WordsOf(cmd)
        IN  /\ (/\ ws # << >>
                /\ ws[1] # w_dashdash
                /\ ~starts_with(ws[1], "#")
                /\ ~starts_with(ws[1], "-"))
                  => \A n \in NormalForms(ws[1]) :
                        /\ n = << >> => result = get_first_word(RestAfter(ws, 1), filtered)
                        /\ Returnable(n, filtered) => result = Some(n)
            /\ cmd = ex_esc_ls => result = Some(w_ls)
            /\ cmd = ex_cd_numount => result = Some(w_cd)
            /\ cmd = ex_reboot_bs => result = Some(w_reboot)
            /\ (cmd = ex_nix_grep /\ w_grep \notin filtered) => result = Some(w_grep)
            /\ cmd = ex_mvnw => result = Some(w_mvnw)

C7_Witness ==
    /\ tpc = "done"
    /\ cmd = <<"a", "/", "c", "d", "\\", "n", "/", "u">>
    /\ result = Some(w_cd)

-----------------------------------------------------------------------------
(* Reading of a FrequencyMap and of a line's pipeline as the properties     *)
(* below state them.                                                        *)

CountOf(n) == IF n \in DOMAIN cmd_count THEN cmd_count[n] ELSE 0

Range(seq) == { seq[k] : k \in 1..Len(seq) }

\* The FilterSet in force for the run.
FilterInForce == (IF no_hist THEN {} ELSE {w_sudo, w_doas}) \cup Range(ignore)

Occurrences(l, c, i) == Cardinality({ j \in 1..(i - 1) : l[j] = c })

\* The | characters of l preceded by an even number of ' and of ".
UnquotedPipes(l) ==
    { i \in 1..Len(l) :
        /\ l[i] = "|"
        /\ Occurrences(l, "'", i) % 2 = 0
        /\ Occurrences(l, "\"", i) % 2 = 0 }

\* The stages of l, each as the pair of split points around it.
Segments(l) ==
    LET U == UnquotedPipes(l)
    IN  { seg \in ({0} \cup U) \X (U \cup {Len(l) + 1}) :
            /\ seg[1] < seg[2]
            /\ ~\E c \in U : seg[1] < c /\ c < seg[2] }

\* l with every quoted | blanked, as the Shell reader tokenizes it.
Masked(l) ==
    [i \in 1..Len(l) |-> IF l[i] = "|" /\ i \notin UnquotedPipes(l) THEN " " ELSE l[i]]

StageText(l, seg) ==
    IF reader \in {"shell", "legacy"}
    THEN SubSeq(Masked(l), seg[1] + 1, seg[2] - 1)
    ELSE SubSeq(l, seg[1] + 1, seg[2] - 1)

\* How many stages of l have n as their first meaningful word.
StagesNamed(l, n, F) ==
    Cardinality({ seg \in Segments(l) : get_first_word(StageText(l, seg), F) = Some(n) })

\* 1 when l, taken as a single stage, has n as its first meaningful word.
LineNamed(l, n, F) == IF get_first_word(l, F) = Some(n) THEN 1 ELSE 0

RECURSIVE SumOver(_, _)
SumOver(S, f) ==
    IF S = {} THEN 0
    ELSE LET x == CHOOSE y \in S : TRUE
         IN  f[x] + SumOver(S \ {x}, f)

ExpectedByStage(n, F) ==
    SumOver(DOMAIN extracted, [l \in DOMAIN extracted |-> extracted[l] * StagesNamed(l, n, F)])

ExpectedByLine(n, F) ==
    SumOver(DOMAIN extracted, [l \in DOMAIN extracted |-> extracted[l] * LineNamed(l, n, F)])

\* Every name some stage or line of the extracted texts can give.
CandidateNames(F) ==
    DOMAIN cmd_count
    \cup UNION { { get_first_word(StageText(l, seg), F)[1] :
                     seg \in { g \in Segments(l) : get_first_word(StageText(l, g), F) # None } } :
                 l \in DOMAIN extracted }
    \cup { get_first_word(l, F)[1] :
             l \in { x \in DOMAIN extracted : get_first_word(x, F) # None } }

-----------------------------------------------------------------------------
(* C1: every key of the FrequencyMap is non-empty, is not a member of the   *)
(* FilterSet in force for the run, and is not --.                           *)

C1_KeysCanonical ==
    \A k \in DOMAIN cmd_count :
        /\ k # << >>
        /\ k \notin FilterInForce
        /\ k # w_dashdash

C1_Witness ==
    /\ ipc = "done"
    /\ ~no_hist
    /\ w_apt \in DOMAIN cmd_count
    /\ w_grep \in DOMAIN cmd_count

-----------------------------------------------------------------------------
(* C2: a name extracted n times ends with count n, at every aggregation     *)
(* site: the first extraction inserts it with count one and each later one  *)
(* adds exactly one.                                                        *)

LegacyStagesNamed(l, n, F) ==
    Cardinality({ seg \in Segments(l) : legacy_get_first_word(StageText(l, seg), F) = n })

LegacyExpected(n, F) ==
    SumOver(DOMAIN extracted,
            [l \in DOMAIN extracted |->
                extracted[l] * (IF no_hist
                                THEN (IF legacy_get_first_word(l, F) = n THEN 1 ELSE 0)
                                ELSE LegacyStagesNamed(l, n, F))])

C2_CountEqualsExtractions ==
    \A n \in DOMAIN cmd_count :
        cmd_count[n] = IF reader = "legacy"
                       THEN LegacyExpected(n, FilterInForce)
                       ELSE IF no_hist THEN ExpectedByLine(n, FilterInForce)
                       ELSE ExpectedByStage(n, FilterInForce)

-----------------------------------------------------------------------------
(* C3: after a Shell-dialect stream is ingested in history mode, the count  *)
(* of each name is the number of pipeline stages, over all extracted lines, *)
(* whose first meaningful word is that name; the four-line fixture gives    *)
(* {git: 2, apt: 1, ls: 1, grep: 1}.                                        *)

C3_Fixture == (l_git_status :> 2) @@ (l_sudo_apt_update :> 1) @@ (l_ls_grep_foo :> 1)

-----------------------------------------------------------------------------
(* C9: with no_hist set every extracted line is one stage and adds at most  *)
(* one, and the FilterSet is the ignore list alone (sudo apt counts sudo);  *)
(* with no_hist unset the FilterSet also holds sudo and doas and a line is  *)
(* split at its unquoted pipes.                                             *)

C9_ModeSemantics ==
    ipc \in {"reading", "done"} =>
        /\ no_hist =>
              /\ \A n \in CandidateNames(Range(ignore)) :
                    CountOf(n) = ExpectedByLine(n, Range(ignore))
              /\ (extracted = (l_sudo_apt_update :> 1)) => cmd_count = (w_sudo :> 1)
        /\ ~no_hist =>
              /\ \A n \in CandidateNames({w_sudo, w_doas} \cup Range(ignore)) :
                    CountOf(n) = ExpectedByStage(n, {w_sudo, w_doas} \cup Range(ignore))
              /\ (extracted = (l_sudo_apt_update :> 1)) => cmd_count = (w_apt :> 1)
              /\ (extracted = (l_ls_grep_foo :> 1) /\ ignore = << >>)
                    => cmd_count = (w_ls :> 1) @@ (w_grep :> 1)

C9_Witness ==
    /\ ipc = "done"
    /\ no_hist
    /\ reader = "shell"
    /\ extracted = (l_sudo_apt_update :> 1) @@ (l_ls_grep_foo :> 1)
    /\ cmd_count = (w_sudo :> 1) @@ (w_ls :> 1)

-----------------------------------------------------------------------------
(* C8: SplitCommands splits at exactly the | preceded by an even number of '
   and an even number of ", and the stages are the substrings between the
   split points, whitespace kept. *)

\* The k-th stage of l, as the pair of split points around it.
NthSegment(l, k) ==
    CHOOSE seg \in Segments(l) :
        Cardinality({ c \in UnquotedPipes(l) : c <= seg[1] }) = k - 1

Between(l, seg) == SubSeq(l, seg[1] + 1, seg[2] - 1)

\* C8: the k-th item yielded is the text between the (k-1)-th and the k-th
\* unquoted |, what is left starts after the last split point taken, and
\* when the iterator is exhausted every unquoted | was a split point.
C8_SplitAtUnquotedPipes ==
    spc = "iterating" =>
        LET l == split_input
            U == UnquotedPipes(l)
            n == Len(yielded)
        IN  /\ n <= Cardinality(U) + 1
            /\ \A k \in 1..n : yielded[k] = Between(l, NthSegment(l, k))
            /\ n > 0 /\ nones = 0 =>
                   split_remaining = SubSeq(l, NthSegment(l, n)[2] + 1, Len(l))
            /\ nones > 0 =>
                   /\ n >= Cardinality(U)
                   /\ Between(l, NthSegment(l, Cardinality(U) + 1)) # << >>
                          => n = Cardinality(U) + 1
            /\ l = l_echo_foo_bar_grep /\ nones > 0 =>
                   yielded = << SubSeq(l, 1, 17), SubSeq(l, 19, 27) >>

C8_Witness ==
    /\ spc = "iterating"
    /\ split_input = l_echo_foo_bar_grep
    /\ nones > 0
    /\ Len(yielded) = 2
    /\ yielded[1][11] = "|"
    /\ yielded[2] = <<" ", "g", "r", "e", "p", " ", "b", "a", "z">>

-----------------------------------------------------------------------------
(* C10: the detector scores each inspected line by the first matching rule
   and answers Fish exactly when fish_score > shell_score. *)

HasPrefix(s, p) == Len(s) >= Len(p) /\ SubSeq(s, 1, Len(p)) = p

\* s without its leading and trailing whitespace.
Trimmed(s) ==
    LET keep == { i \in 1..Len(s) : s[i] \notin Blank }
    IN  IF keep = {} THEN << >>
        ELSE SubSeq(s, CHOOSE i \in keep : \A j \in keep : i <= j,
                       CHOOSE i \in keep : \A j \in keep : j <= i)

Decodable(l) == ~Contains(l, INVALID)

\* The line as the detector sees it: without its line terminator.
Unterminated(l) ==
    LET a == IF Len(l) > 0 /\ l[Len(l)] = "\n" THEN SubSeq(l, 1, Len(l) - 1) ELSE l
    IN  IF Len(a) > 0 /\ a[Len(a)] = "\r" THEN SubSeq(a, 1, Len(a) - 1) ELSE a

Inspected(l) == Decodable(l) /\ Trimmed(Unterminated(l)) # << >>

RuleMatches(k, l) ==
    LET u == Unterminated(l)
        t == Trimmed(u)
    IN  CASE k = 1 -> HasPrefix(t, <<"-", " ", "c", "m", "d", ":", " ">>)
          [] k = 2 -> \/ HasPrefix(t, <<"w", "h", "e", "n", ":", " ">>)
                      \/ HasPrefix(t, <<"p", "a", "t", "h", "s", ":">>)
          [] k = 3 -> \/ HasPrefix(u, <<" ", " ", "w", "h", "e", "n", ":", " ">>)
                      \/ HasPrefix(u, <<" ", " ", "p", "a", "t", "h", "s", ":", " ">>)
                      \/ HasPrefix(u, <<" ", " ", "-", " ">>)
          [] k = 4 -> HasPrefix(u, <<":", " ">>) /\ Contains(u, ";")
          [] OTHER -> TRUE

FirstRule(l) == CHOOSE k \in 1..5 : RuleMatches(k, l) /\ \A j \in 1..(k - 1) : ~RuleMatches(j, l)

FishGain(k) == CASE k = 1 -> 4 [] k = 2 -> 2 [] k = 3 -> 1 [] OTHER -> 0

ShellGain(k) == CASE k = 4 -> 3 [] k = 5 -> 1 [] OTHER -> 0

C10_LineScored ==
    dread' = dread + 1 =>
        IF Inspected(dline')
        THEN /\ inspected' = inspected + 1
             /\ fish_score' = fish_score + FishGain(FirstRule(dline'))
             /\ shell_score' = shell_score + ShellGain(FirstRule(dline'))
        ELSE UNCHANGED <<inspected, fish_score, shell_score>>

C10_Verdict ==
    dpc = "decided" =>
        /\ format \in {"Fish", "Shell"}
        /\ format = "Fish" <=> fish_score > shell_score
        /\ fish_score = shell_score => format = "Shell"
        /\ inspected = 0 => format = "Shell"

\* C10: every line read adds to exactly one score by the first matching
\* rule (fish +4, +2, +1, shell +3, +1), a line that is not inspected adds
\* nothing, and the answer is Fish iff fish_score > shell_score, so a tie
\* and the empty stream give Shell.
C10_ScoresAndVerdict == [][C10_LineScored]_vars /\ []C10_Verdict

C10_Witness ==
    /\ dpc = "decided"
    /\ inspected = 3
    /\ fish_score = 4
    /\ shell_score = 4
    /\ format = "Shell"

-----------------------------------------------------------------------------
(* C11: the detector's answer is a function of the first 64 non-empty,
   decodable lines only. *)

InspectedLines == { l \in DOMAIN dlines : Inspected(l) }

InspectedCount == SumOver(InspectedLines, [l \in InspectedLines |-> dlines[l]])

FishTotal == SumOver(InspectedLines, [l \in InspectedLines |-> dlines[l] * FishGain(FirstRule(l))])

ShellTotal ==
    SumOver(InspectedLines, [l \in InspectedLines |-> dlines[l] * ShellGain(FirstRule(l))])

C11_State ==
    dpc \in {"scanning", "decided"} =>
        LET fish == FishTotal
            shell == ShellTotal
        IN  /\ inspected = InspectedCount
            /\ inspected <= 64
            /\ fish_score = fish
            /\ shell_score = shell
            /\ inspected = 64 => dpc = "decided"
            /\ dpc = "decided" => format = IF fish > shell THEN "Fish" ELSE "Shell"

C11_Final == dpc = "decided" => UNCHANGED <<format, fish_score, shell_score, inspected>>

\* C11: the scores and the answer are determined by the inspected lines read
\* so far (blank and undecodable lines add nothing and are not counted, the
\* path plays no part), at most 64 lines are inspected, and once the answer
\* is given no later line changes it.
C11_FirstLinesOnly == []C11_State /\ [][C11_Final]_vars

C11_Witness ==
    /\ dpc = "decided"
    /\ inspected = 64
    /\ dread = 65
    /\ dpath = path_bash_in_fish_dir
    /\ f_undecodable_when \in DOMAIN dlines
    /\ fish_score = 64
    /\ shell_score = 48
    /\ format = "Fish"

-----------------------------------------------------------------------------
(* C12: in every Record Reader an undecodable physical line is skipped and
   ingestion goes on; the reader never returns an error for it. *)

C12_LineSkipped ==
    (nread' = nread + 1 /\ ~Decodable(last_line')) =>
        /\ ipc' = "reading"
        /\ UNCHANGED <<cmd_count, skip, current_cmd, extracted>>

\* C12: no reader ends in an error, and reading an undecodable line changes
\* nothing the rest of the ingestion depends on (the map, the skip flag, the
\* in-progress command), so the final map is that of the stream without it.
C12_UndecodableSkipped == [](ipc # "error") /\ [][C12_LineSkipped]_vars

-----------------------------------------------------------------------------
(* C13: the Fish reader joins a continuation line to an in-progress command
   that ends with a backslash. *)

StripLeft(s, C) ==
    LET keep == { i \in 1..Len(s) : s[i] \notin C }
    IN  IF keep = {} THEN << >>
        ELSE SubSeq(s, CHOOSE i \in keep : \A j \in keep : i <= j, Len(s))

StripRight(s, C) ==
    LET keep == { i \in 1..Len(s) : s[i] \notin C }
    IN  IF keep = {} THEN << >>
        ELSE SubSeq(s, 1, CHOOSE i \in keep : \A j \in keep : j <= i)

LineText(l) == StripRight(l, {"\n", "\r"})

FishMetadata(t) ==
    \/ HasPrefix(t, <<" ", " ", "w", "h", "e", "n", ":", " ">>)
    \/ HasPrefix(t, <<" ", " ", "p", "a", "t", "h", "s", ":">>)
    \/ HasPrefix(t, <<" ", " ", "-", " ">>)

\* The step reads a continuation line of the in-progress command.
FishContinuationStep ==
    /\ reader = "fish"
    /\ nread' = nread + 1
    /\ Decodable(last_line')
    /\ current_cmd # << >>
    /\ current_cmd[Len(current_cmd)] = "\\"
    /\ HasPrefix(LineText(last_line'), <<" ", " ">>)
    /\ ~FishMetadata(LineText(last_line'))

JoinedHead == StripRight(SubSeq(current_cmd, 1, Len(current_cmd) - 1), Blank) \o <<" ">>

t_doas_systemctl_stop_sshd ==
    <<"d", "o", "a", "s", " ", "-", "-", " ", "s", "y", "s", "t", "e", "m", "c", "t", "l",
      " ", "s", "t", "o", "p", " ", "s", "s", "h", "d">>

C13_Example ==
    (/\ reader = "fish"
     /\ ~no_hist
     /\ DOMAIN extracted = {t_doas_systemctl_stop_sshd})
        => cmd_count = (w_systemctl :> extracted[t_doas_systemctl_stop_sshd])

\* C13 as written: the appended content is the line without its two leading
\* spaces.
C13_JoinTwoSpaces ==
    [][FishContinuationStep =>
          /\ current_cmd' = JoinedHead \o SubSeq(LineText(last_line'), 3, Len(LineText(last_line')))
          /\ UNCHANGED <<cmd_count, extracted>>]_vars
    /\ []C13_Example

\* C13: a continuation line is joined to the in-progress command: the
\* trailing backslash is removed, trailing whitespace trimmed, one space
\* appended, then the line's content without its leading whitespace (all of
\* it, not only two spaces); nothing is counted until the joined text is
\* flushed as one command, so the doas example counts systemctl once.
C13_JoinContinuation ==
    [][FishContinuationStep =>
          /\ current_cmd' = JoinedHead \o StripLeft(LineText(last_line'), Blank)
          /\ UNCHANGED <<cmd_count, extracted>>]_vars
    /\ []C13_Example

C13_Witness ==
    /\ reader = "fish"
    /\ ~no_hist
    /\ nread = 4
    /\ last_line = f_when
    /\ current_cmd = << >>
    /\ extracted =
           (<<"d", "o", "a", "s", " ", "-", "-", " ", "-", "-", " ", "s", "y", "s", "t", "e",
              "m", "c", "t", "l", " ", "s", "t", "o", "p", " ", "s", "s", "h", "d">> :> 1)
    /\ cmd_count = (w_systemctl :> 1)

-----------------------------------------------------------------------------
(* C14: in the Fish reader every record with non-empty text is flushed
   exactly once. *)

\* The bag with one more occurrence of x.
AddOne(bag, x) ==
    [y \in DOMAIN bag \cup {x} |->
        (IF y \in DOMAIN bag THEN bag[y] ELSE 0) + (IF y = x THEN 1 ELSE 0)]

CmdPrefix == <<"-", " ", "c", "m", "d", ":", " ">>

FishLineStep == reader = "fish" /\ nread' = nread + 1

C14_Line ==
    FishLineStep =>
        LET t == LineText(last_line')
        IN  IF ~Decodable(last_line')
            THEN UNCHANGED <<extracted, current_cmd>>
            ELSE IF HasPrefix(t, CmdPrefix)
            THEN /\ extracted' = IF current_cmd # << >> THEN AddOne(extracted, current_cmd)
                                 ELSE extracted
                 /\ current_cmd' = SubSeq(t, Len(CmdPrefix) + 1, Len(t))
            ELSE IF FishMetadata(t)
            THEN /\ extracted' = IF current_cmd # << >> THEN AddOne(extracted, current_cmd)
                                 ELSE extracted
                 /\ current_cmd' = << >>
            ELSE extracted' = extracted

C14_End ==
    (reader = "fish" /\ ipc = "reading" /\ ipc' = "done") =>
        extracted' = IF current_cmd # << >> THEN AddOne(extracted, current_cmd) ELSE extracted

\* Every flushed text is folded into the map: the counts are those of the
\* flushed texts.
C14_Folded ==
    reader = "fish" =>
        \A n \in CandidateNames(FilterInForce) :
            CountOf(n) = IF no_hist THEN ExpectedByLine(n, FilterInForce)
                         ELSE ExpectedByStage(n, FilterInForce)

\* C14: the in-progress record is flushed at the next `- cmd: ` line, at the
\* first following metadata line or at the end of the stream, and at no
\* other step; a metadata line with no record in progress adds nothing; the
\* end of the stream leaves no record unflushed; and what is flushed is
\* what the map counts.
C14_FlushedOnce == [][C14_Line /\ C14_End]_vars /\ []C14_Folded

C14_Witness ==
    /\ reader = "fish"
    /\ ipc = "done"
    /\ nread = 4
    /\ last_line = f_ls_grep_foo
    /\ ignore = << >>
    /\ ~no_hist
    /\ extracted = (l_git_status :> 1) @@ (l_ls_grep_foo :> 1)
    /\ cmd_count = (w_git :> 1) @@ (w_ls :> 1) @@ (w_grep :> 1)

-----------------------------------------------------------------------------
(* C15: the buffered path and the streaming path of the Shell reader end
   with the same FrequencyMap for the same bytes. *)

\* C15: when both paths have run over the same bytes with the same filter
\* and no_hist, their maps are equal.
C15_SameMap == ppc = "done" => reader_count = bytes_count

C15_Witness ==
    /\ ppc = "done"
    /\ file_bytes = l_git_status \o CRLF \o l_ls_backslash
    /\ ~no_hist
    /\ ignore = << >>
    /\ bytes_count = (w_git :> 1) @@ (w_ls :> 1)
    /\ reader_count = bytes_count
    /\ bytes_skip
    /\ reader_skip

-----------------------------------------------------------------------------
(* C16: for Shell-dialect lines that are independent, the map does not
   depend on the order of the lines. *)

\* The line neither ends with a backslash nor is a `: ` line without `;`.
IndependentLine(l) ==
    LET t == LineText(l)
    IN  /\ ~(t # << >> /\ t[Len(t)] = "\\")
        /\ ~(HasPrefix(t, <<":", " ">>) /\ ~Contains(t, ";"))

\* What the line adds when it is the only line of the stream.
LineAlone(l) == shell_read_line(l, FALSE, EmptyMap, filtered_commands, no_hist).cmd_count

\* Pointwise sum of two maps.
MapSum(a, b) ==
    [n \in DOMAIN a \cup DOMAIN b |->
        (IF n \in DOMAIN a THEN a[n] ELSE 0) + (IF n \in DOMAIN b THEN b[n] ELSE 0)]

C16_Step ==
    (/\ reader = "shell"
     /\ nread' = nread + 1
     /\ ~skip
     /\ IndependentLine(last_line'))
        => /\ ~skip'
           /\ cmd_count' = MapSum(cmd_count, LineAlone(last_line'))

\* C16: reading an independent line leaves the reader in its normal state
\* and adds to the map what that line adds on its own, whatever was read
\* before; the map of a stream of independent lines is therefore the sum of
\* its lines' own maps, the same for every order of the lines.
C16_OrderIndependent == [][C16_Step]_vars

C16_Witness ==
    /\ reader = "shell"
    /\ ipc = "done"
    /\ ~skip
    /\ ~no_hist
    /\ ignore = << >>
    /\ nread = 4
    /\ last_line = l_git_status
    /\ extracted = C3_Fixture
    /\ cmd_count = (w_git :> 2) @@ (w_apt :> 1) @@ (w_ls :> 1) @@ (w_grep :> 1)

-----------------------------------------------------------------------------
(* C17: the three widths of a rendered bar are non-negative and sum to the
   bar width, or are all zero. *)

\* The integers nearest to n / d, both of them when n / d is half-way.
Nearest(n, d) == { k \in 0..(n \div d + 1) : 2 * (k * d - n) <= d /\ 2 * (n - k * d) <= d }

RenderedBefore == SumOver(1..(item_index - 1), [i \in 1..(item_index - 1) |-> items[i]])

C17_Widths ==
    (bpc \in {"rendering", "returned", "panic"} /\ item_index > 0) =>
        LET W == config_size
            total == SumOver(1..Len(items), [i \in 1..Len(items) |-> items[i]])
            v == items[item_index]
            left == total - RenderedBefore
        IN  /\ bpc # "panic"
            /\ unfilled_count \in Nat /\ semifilled_count \in Nat /\ filled_count \in Nat
            /\ IF W > 0 /\ (show_percentage \/ show_cumulative)
               THEN /\ unfilled_count + semifilled_count + filled_count = W
                    /\ bar_str # << >>
                    /\ (show_percentage /\ show_cumulative) =>
                          /\ filled_count \in Nearest(v * W, total)
                          /\ \E semi \in Nearest((left - v) * W, total) :
                                semifilled_count = IF filled_count + semi > W
                                                   THEN W - filled_count ELSE semi
               ELSE /\ unfilled_count = 0
                    /\ semifilled_count = 0
                    /\ filled_count = 0
                    /\ bar_str = << >>

\* C17: for every item rendered from a non-empty list with positive total,
\* with W > 0 and a toggle on the widths are non-negative and sum to W, semi
\* being W - filled when filled + semi would exceed W; with W = 0 or both
\* toggles off the widths are zero and the bar string is empty.
C17_WidthsSumToW == C17_Widths

C17_Witness ==
    /\ bpc = "rendering"
    /\ items = <<1, 1>>
    /\ item_index = 1
    /\ config_size = 1
    /\ show_percentage
    /\ show_cumulative
    /\ filled_count = 1
    /\ semifilled_count = 0
    /\ unfilled_count = 0

-----------------------------------------------------------------------------
(* C18: with track_subcommands on, a resolved name in SUBCOMMAND_TOOLS that  *)
(* is followed by a next whitespace-separated word not starting with `-`     *)
(* gives the key `<name> <next-word>` (`git status --short` gives            *)
(* `git status`); with tracking off, a name outside the set, no next word,   *)
(* or a next word starting with `-` (`git -v`), the key is the name alone.   *)

\* the words get_first_word passes over before it resolves a name
PassedOver(w, F) ==
    \/ w \in F
    \/ (Contains(w, "=") /\ w[1] # "$")
    \/ (Len(w) > 1 /\ w[1] = "\\" /\ Tail(w) \in F)

\* position of the word the name is resolved from, 0 when there is none
NameIndex(ws, F) ==
    IF \A k \in 1..Len(ws) : PassedOver(ws[k], F) THEN 0
    ELSE CHOOSE k \in 1..Len(ws) :
           /\ ~PassedOver(ws[k], F)
           /\ \A j \in 1..(k - 1) : PassedOver(ws[j], F)

ResolvedName(w) == IF Len(w) > 1 /\ w[1] = "\\" THEN Tail(w) ELSE w

HasSubcommand(ws, k) == k < Len(ws) /\ ws[k + 1][1] # "-"

t_git_status_short == <<"g", "i", "t", " ", "s", "t", "a", "t", "u", "s", " ", "-", "-", "s", "h", "o", "r", "t">>
t_git_status == <<"g", "i", "t", " ", "s", "t", "a", "t", "u", "s">>
t_git_v == <<"g", "i", "t", " ", "-", "v">>

C18_Examples ==
    /\ utils_get_first_word(t_git_status_short, {}, TRUE) = t_git_status
    /\ utils_get_first_word(t_git_v, {}, TRUE) = w_git
    /\ utils_get_first_word(t_git_status_short, {}, FALSE) = w_git

\* C18: the key is `<name> <next-word>` exactly when tracking is on, the
\* resolved name is in SUBCOMMAND_TOOLS and a next word exists that does not
\* start with `-`; in every other case it is the name alone.
C18_SubcommandKey ==
    upc = "done" =>
      LET ws == WordsOf(utils_cmd)
          k == NameIndex(ws, utils_filtered)
      IN  /\ C18_Examples
          /\ k = 0 => utils_key = << >>
          /\ k > 0 =>
               LET name == ResolvedName(ws[k])
               IN  IF /\ track_subcommands
                      /\ name \in SUBCOMMAND_TOOLS
                      /\ HasSubcommand(ws, k)
                   THEN utils_key = name \o <<" ">> \o ws[k + 1]
                   ELSE utils_key = name

C18_Witness ==
    /\ upc = "done"
    /\ track_subcommands
    /\ utils_cmd = t_git_status_short
    /\ utils_key = t_git_status

-----------------------------------------------------------------------------
(* C19: filter_and_sort_commands returns exactly the entries whose count is  *)
(* strictly greater than more_than, by count descending and, among equal     *)
(* counts, by name ascending, whatever order the map is iterated in;         *)
(* output_limit then shows min(count, number of ranked commands) rows, or    *)
(* all of them when `all` is set.                                            *)

LetterRank(c) == CHOOSE i \in 1..26 : Alphabet[i] = c

\* a comes strictly before b in the byte order of strings
NameBefore(a, b) ==
    \E k \in 1..(Len(b)) :
      /\ k <= Len(a) + 1
      /\ \A j \in 1..(k - 1) : a[j] = b[j]
      /\ (k = Len(a) + 1 \/ LetterRank(a[k]) < LetterRank(b[k]))

Kept == { n \in DOMAIN command_counts : command_counts[n] > run_more_than }

C19_ExactlyKept ==
    /\ Len(commands) = Cardinality(Kept)
    /\ \A n \in Kept :
         \E i \in 1..Len(commands) :
           commands[i] = [name |-> n, count |-> command_counts[n]]

C19_Ordered ==
    \A i, j \in 1..Len(commands) :
      i < j =>
        \/ commands[i].count > commands[j].count
        \/ (commands[i].count = commands[j].count
              /\ NameBefore(commands[i].name, commands[j].name))

C19_Limit ==
    shown_rows = IF run_all THEN Len(commands)
                 ELSE IF run_count <= Len(commands) THEN run_count ELSE Len(commands)

\* C19: the ranking holds exactly the entries with count > more_than, by
\* count descending then name ascending, whatever order the map was iterated
\* in; the rows shown are min(count, ranked) or all of them when all is set.
C19_RankedAndLimited ==
    /\ rpc \in {"ranked", "limited"} => (C19_ExactlyKept /\ C19_Ordered)
    /\ rpc = "limited" => C19_Limit

C19_Witness ==
    /\ rpc = "limited"
    /\ command_counts = (w_zsh :> 2 @@ w_bash :> 2 @@ w_ls :> 1)
    /\ run_more_than = 1
    /\ commands = << [name |-> w_bash, count |-> 2], [name |-> w_zsh, count |-> 2] >>
    /\ ~run_all
    /\ run_count = 1
    /\ shown_rows = 1

-----------------------------------------------------------------------------
(* C20: a value given by a command-line flag takes precedence over the value *)
(* of the same setting in a config file loaded with `--config`, whatever the *)
(* relative order of the flag and `--config` among the arguments:            *)
(* `--config F -c 1` and `-c 1 --config F` both give the effective count 1   *)
(* when F sets count = 4.                                                    *)

TakesValue(a) == a \in {a_f, a_c, a_b, a_config}

\* the positions of args where a flag, not a flag's value, stands
RECURSIVE FlagPositions(_, _)
FlagPositions(argv, p) ==
    IF p > Len(argv) THEN {}
    ELSE {p} \cup FlagPositions(argv, IF TakesValue(argv[p]) THEN p + 2 ELSE p + 1)

\* the positions of the flag that are followed by a value
Given(argv, flag) ==
    { p \in FlagPositions(argv, 1) : argv[p] = flag /\ p + 1 <= Len(argv) }

Last(S) == CHOOSE p \in S : \A q \in S : q <= p

NumberOf == (a_one :> 1) @@ (a_two :> 2)

\* the value the flag gives: that of its last occurrence
FlagValue(argv, flag) == NumberOf[argv[Last(Given(argv, flag)) + 1]]

ConfigLoaded == Given(args, a_config) # {}

\* C20: when from_args succeeds with a config file loaded by --config, the
\* count and bar size given by -c and -b are the effective ones, wherever
\* --config stands among the arguments.
C20_FlagOverridesConfig ==
    (cpc = "done" /\ ConfigLoaded) =>
      /\ Given(args, a_c) # {} => config.count = FlagValue(args, a_c)
      /\ Given(args, a_b) # {} => config.bar_size = FlagValue(args, a_b)

-----------------------------------------------------------------------------
(* C21..C24: the Shell reader's two states. Normal is skip = FALSE,          *)
(* AwaitingContinuation is skip = TRUE.                                      *)

ShellStep == reader = "shell" /\ nread' = nread + 1

EndsWithBackslash(t) == t # << >> /\ t[Len(t)] = "\\"

ZshLine(t) == HasPrefix(t, <<":", " ">>)

MetadataOnly(t) == ZshLine(t) /\ ~Contains(t, ";")

FirstSemicolon(t) == CHOOSE i \in 1..Len(t) : t[i] = ";" /\ \A j \in 1..(i - 1) : t[j] # ";"

\* The line content: what follows the first `;` of a `: ` line, else the line.
Content(t) ==
    IF ZshLine(t) /\ Contains(t, ";") THEN SubSeq(t, FirstSemicolon(t) + 1, Len(t)) ELSE t

\* The names the stages of c give, each with the number of stages giving it;
\* with no_hist the whole of c is one stage.
OwnMap(c) ==
    LET F == FilterInForce
        names == IF no_hist
                 THEN { n[1] : n \in { get_first_word(c, F) } \ {None} }
                 ELSE { get_first_word(StageText(c, seg), F)[1] :
                          seg \in { g \in Segments(c) : get_first_word(StageText(c, g), F) # None } }
    IN  [n \in names |-> IF no_hist THEN 1 ELSE StagesNamed(c, n, F)]

\* The line read is extracted from its own content and from nothing else.
ExtractedAlone(t) ==
    /\ extracted' = AddOne(extracted, Content(t))
    /\ cmd_count' = MapSum(cmd_count, OwnMap(Content(t)))

NothingExtracted == cmd_count' = cmd_count /\ extracted' = extracted

C21_Step ==
    ShellStep =>
      LET t == LineText(last_line')
      IN  /\ (~skip /\ Decodable(last_line') /\ EndsWithBackslash(t)) =>
                /\ skip'
                /\ IF MetadataOnly(t) THEN NothingExtracted ELSE ExtractedAlone(t)
          /\ skip => NothingExtracted
          /\ (skip /\ Decodable(last_line') /\ EndsWithBackslash(t)) => skip'

\* C21: a line read in Normal state that ends with a backslash is extracted
\* from its own content only (a `: ` line without `;` has no content and
\* yields nothing) and puts the reader in AwaitingContinuation; in
\* AwaitingContinuation no line is extracted, and a line ending with a
\* backslash keeps the reader there.
C21_ContinuationNeverExtracted == [][C21_Step]_vars

C21_Witness ==
    /\ reader = "shell"
    /\ nread = 3
    /\ skip
    /\ last_line = l_zsh_ls_backslash
    /\ extracted = (<<"l", "s", " ", "\\">> :> 1)
    /\ cmd_count = (w_ls :> 1)

C22_Step ==
    (/\ ShellStep
     /\ skip
     /\ Decodable(last_line')
     /\ ~EndsWithBackslash(LineText(last_line')))
        => /\ NothingExtracted
           /\ ~skip'

\* C22: a decodable line without a trailing backslash read in
\* AwaitingContinuation is discarded and leaves the reader in Normal state,
\* whatever else the line is, a `: ` line without `;` included.
C22_DiscardThenNormal == [][C22_Step]_vars

C23_Step ==
    (/\ ShellStep
     /\ ~skip
     /\ Decodable(last_line')
     /\ MetadataOnly(LineText(last_line')))
        => /\ ipc' # "error"
           /\ NothingExtracted
           /\ skip'

\* what a step reads in AwaitingContinuation, when it is decodable, is not
\* extracted
C23_NextSkipped == (ShellStep /\ skip /\ Decodable(last_line')) => NothingExtracted

\* C23: a `: ` line without `;` read in Normal state is no error, yields no
\* command, leaves the map unchanged and puts the reader in
\* AwaitingContinuation, where the next decodable line is not extracted.
C23_MetadataWithoutCommand == [](ipc # "error") /\ [][C23_Step /\ C23_NextSkipped]_vars

C23_Witness ==
    /\ reader = "shell"
    /\ nread = 2
    /\ last_line = l_git_status
    /\ ~skip
    /\ cmd_count = EmptyMap
    /\ extracted = EmptyMap

w_echo == <<"e", "c", "h", "o">>

C24_Step ==
    (/\ ShellStep
     /\ Decodable(last_line')
     /\ ZshLine(LineText(last_line'))
     /\ Contains(LineText(last_line'), ";"))
        => LET t == LineText(last_line')
           IN  /\ skip' = EndsWithBackslash(Content(t))
               /\ IF skip THEN NothingExtracted ELSE ExtractedAlone(t)

C24_Example ==
    shell_read_line(l_zsh_echo_semi_ls, FALSE, EmptyMap, {}, FALSE).cmd_count = (w_echo :> 1)

\* C24: for a `: ` line with a `;`, what is extracted and what is tested for
\* a trailing backslash is the text after the first `;`: the prefix gives no
\* name and later `;` stay in the command (`: 1:0;echo a; ls` gives echo).
C24_AfterFirstSemicolon == [][C24_Step /\ C24_Example]_vars

C24_Witness ==
    /\ reader = "shell"
    /\ nread = 1
    /\ last_line = l_zsh_echo_semi_ls
    /\ ~skip
    /\ extracted = (<<"e", "c", "h", "o", " ", "a", ";", " ", "l", "s">> :> 1)
    /\ cmd_count = (w_echo :> 1)

-----------------------------------------------------------------------------
(* C25: the Fish reader passes over a line that is not valid UTF-8, whatever *)
(* its first bytes are.                                                      *)

t_echo_hello_world ==
    <<"e", "c", "h", "o", " ", "h", "e", "l", "l", "o", " ", "w", "o", "r", "l", "d">>

\* the reader's record after the lines of ls, in order, read from an empty
\* in-progress command and an empty map
RECURSIVE FishAfter(_)
FishAfter(ls) ==
    IF ls = << >> THEN [current_cmd |-> << >>, cmd_count |-> EmptyMap]
    ELSE LET before == FishAfter(SubSeq(ls, 1, Len(ls) - 1))
         IN  fish_read_line(ls[Len(ls)], before.current_cmd, before.cmd_count, {}, FALSE)

C25_Example ==
    LET r == FishAfter(<<f_echo_hello_backslash, f_undecodable_when, f_world, f_when>>)
    IN  r.current_cmd = << >> /\ r.cmd_count = (w_echo :> 1)

C25_Step ==
    (FishLineStep /\ ~Decodable(last_line'))
        => /\ current_cmd' = current_cmd
           /\ cmd_count' = cmd_count
           /\ extracted' = extracted

\* C25: reading a line that is not valid UTF-8 leaves the in-progress
\* command and the map unchanged, even when its bytes begin with a metadata
\* prefix; a continuation line after it is still joined, so the stream
\* `- cmd: echo hello\`, undecodable `  when: `, `  world`, `  when: 1`
\* counts echo once.
C25_UndecodableLeavesRecord == [][C25_Step /\ C25_Example]_vars

C25_Witness ==
    /\ reader = "fish"
    /\ nread = 2
    /\ last_line = f_undecodable_when
    /\ current_cmd = <<"e", "c", "h", "o", " ", "h", "e", "l", "l", "o", "\\">>
    /\ cmd_count = EmptyMap

-----------------------------------------------------------------------------
(* C26: the tcsh and PowerShell readers take every line on its own.          *)

SimpleStep == reader \in {"tcsh", "powershell"} /\ nread' = nread + 1 /\ ipc' # "error"

\* the dialect predicate: tcsh passes over lines whose trimmed text starts
\* with `#`, PowerShell passes over none
DialectSkips(t) == reader = "tcsh" /\ HasPrefix(Trimmed(t), <<"#">>)

IsCommandLine(l) ==
    /\ Decodable(l)
    /\ Trimmed(LineText(l)) # << >>
    /\ ~DialectSkips(LineText(l))

\* the name the whole of c gives as a single stage
WholeLineMap(c) ==
    [n \in { m[1] : m \in { get_first_word(c, FilterInForce) } \ {None} } |-> 1]

C26_Step(split) ==
    SimpleStep =>
      /\ skip' = skip
      /\ current_cmd' = current_cmd
      /\ IF IsCommandLine(last_line')
         THEN /\ extracted' = AddOne(extracted, LineText(last_line'))
              /\ cmd_count' = MapSum(cmd_count, IF split THEN OwnMap(LineText(last_line'))
                                                   ELSE WholeLineMap(LineText(last_line')))
         ELSE NothingExtracted

\* C26 as written: every line the dialect predicate does not skip is one
\* command, taken independently of the lines before it and not split on `|`.
C26_NoPipeSemantics == [][C26_Step(FALSE)]_vars

\* C26: every non-empty line the dialect predicate does not skip is one
\* LogicalCommand, taken independently of the lines before it (a trailing
\* backslash on the previous line changes nothing); with no_hist off it is
\* split at its unquoted `|` into stages, with no_hist on it is one stage.
C26_LineIsCommand == [][C26_Step(TRUE)]_vars

C26_Witness ==
    /\ reader = "tcsh"
    /\ ~no_hist
    /\ ignore = << >>
    /\ nread = 2
    /\ last_line = l_ls_grep_foo
    /\ extracted = (l_ls_backslash :> 1) @@ (l_ls_grep_foo :> 1)
    /\ cmd_count = (w_ls :> 2) @@ (w_grep :> 1)

-----------------------------------------------------------------------------
(* C27: the FrequencyMap only grows.                                         *)

\* the increment_count the reader in force calls
SiteInForce ==
    IF reader = "shell" THEN "shell" ELSE IF reader = "tcsh" THEN "tcsh" ELSE "simple"

\* the pipeline stages of the line last read
StagesLastRead ==
    LET t == LineText(last_line)
    IN  { StageText(t, seg) : seg \in Segments(t) }

C27_Grows ==
    \A n \in DOMAIN cmd_count : n \in DOMAIN cmd_count' /\ cmd_count'[n] >= cmd_count[n]

C27_Positive == \A n \in DOMAIN cmd_count : cmd_count[n] >= 1

\* one stage handed to the aggregation loop, from the map as it stands
C27_StageAddsOne ==
    \A stage \in StagesLastRead :
      LET after == count_stages(cmd_count, <<stage>>, FilterInForce, SiteInForce)
          first_word == get_first_word(stage, FilterInForce)
      IN  IF first_word = None THEN after = cmd_count
          ELSE /\ after = AddOne(cmd_count, first_word[1])
               /\ \A n \in DOMAIN cmd_count \ {first_word[1]} : after[n] = cmd_count[n]
               /\ after[first_word[1]] = CountOf(first_word[1]) + 1

\* C27: no step removes a key or lowers a count; every key present has count
\* at least 1; one pipeline stage changes at most one key, by exactly +1,
\* and leaves every other key and count as it was.
C27_MapOnlyGrows == [](C27_Positive /\ C27_StageAddsOne) /\ [][C27_Grows]_vars

C27_Witness ==
    /\ reader = "powershell"
    /\ ~no_hist
    /\ nread = 3
    /\ last_line = l_ls_grep_foo
    /\ cmd_count = (w_ls :> 2) @@ (w_grep :> 1) @@ (w_git :> 1)

-----------------------------------------------------------------------------
(* The name get_first_word returns is a fixed point of get_first_word.      *)

NameShape(n) ==
    /\ n # << >>
    /\ \A k \in 1..Len(n) : ~is_ascii_whitespace(n[k]) /\ n[k] # "\\" /\ ~is_separator(n[k])
    /\ ~starts_with(n, "-")
    /\ ~starts_with(n, "#")

\* C28: when get_first_word(s, F) returns a name n, n holds no ASCII
\* whitespace, no backslash and no path separator, does not start with `-`
\* or `#`, and get_first_word(n, F) returns n again.
C28_Idempotent ==
    (tpc = "done" /\ result # None) =>
        /\ NameShape(result[1])
        /\ get_first_word(result[1], filtered) = result

C28_Witness ==
    /\ tpc = "done"
    /\ cmd = ex_cd_numount
    /\ filtered = {w_sudo, w_doas}
    /\ result = Some(w_cd)
    /\ get_first_word(w_cd, filtered) = Some(w_cd)

-----------------------------------------------------------------------------
(* The two pipe handlings compared on the line a reader has just taken.     *)

RECURSIVE NamesOf(_, _)
NamesOf(stages, F) ==
    IF stages = << >> THEN << >>
    ELSE get_first_word(Head(stages), F) \o NamesOf(Tail(stages), F)

\* the Shell reader: quoted `|` replaced by a space, then cut at every `|`
NamesByCleanLine(l, F) == NamesOf(str_split(clean_line(l), "|"), F)

\* the Fish, tcsh and PowerShell readers: the stages SplitCommands yields
NamesBySplitCommands(l, F) == NamesOf(split_commands(l), F)

CountNames(counts, names) ==
    [n \in DOMAIN counts \cup Range(names) |->
        (IF n \in DOMAIN counts THEN counts[n] ELSE 0)
        + Cardinality({ k \in 1..Len(names) : names[k] = n })]

C29_SameNames ==
    (nread > 0 /\ Decodable(last_line)) =>
        NamesByCleanLine(LineText(last_line), FilterInForce)
            = NamesBySplitCommands(LineText(last_line), FilterInForce)

C29_Step ==
    (nread' = nread + 1 /\ ~no_hist /\ ipc' # "error") =>
        LET l == LineText(last_line')
        IN  /\ reader = "shell" /\ ~skip
                => cmd_count' = CountNames(cmd_count, NamesByCleanLine(l, FilterInForce))
            /\ reader \in {"powershell", "tcsh"}
                => cmd_count' = CountNames(cmd_count, NamesBySplitCommands(l, FilterInForce))

\* C29: the Shell reader's pipe handling (clean_line, then a cut at every
\* `|`) and the SplitCommands iterator of the other readers give the same
\* sequence of command names for every line and FilterSet, and each reader
\* counts the names its handling gives.
C29_SameNamesEveryDialect == []C29_SameNames /\ [][C29_Step]_vars

-----------------------------------------------------------------------------
(* The SplitCommands iterator ends, stays ended, and its stages put back    *)
(* together are the line.                                                   *)

\* the final stage is empty: the line is empty or ends in an unquoted |
FinalStageEmpty(l) == l = << >> \/ Len(l) \in UnquotedPipes(l)

C30_Shrinks == nones' = nones => Len(split_remaining') < Len(split_remaining)

C30_NoneStays ==
    nones > 0 => (nones' = nones + 1 /\ yielded' = yielded /\ split_remaining' = << >>)

C30_Exhausted ==
    (spc = "iterating" /\ nones > 0) =>
        LET l == split_input
            tail == IF FinalStageEmpty(l) THEN << << >> >> ELSE << >>
        IN  /\ Len(yielded) + Len(tail) = Cardinality(UnquotedPipes(l)) + 1
            /\ JoinWith(yielded \o tail, <<"|">>) = l

\* C30: the iterator returns None after finitely many calls (each item
\* returned shortens what remains) and returns None on every call after
\* that; it yields one stage per unquoted | plus one, less an empty final
\* stage, and the stages yielded, followed by that empty stage when it was
\* left out, joined with | are the input.
C30_TerminatesAndRejoins ==
    /\ <>(nones > 0)
    /\ []C30_Exhausted
    /\ [][C30_Shrinks /\ C30_NoneStays]_vars

C30_Witness ==
    /\ spc = "iterating"
    /\ split_input = <<"a", "|", "|">>
    /\ yielded = << <<"a">>, << >> >>
    /\ nones = MaxNones

=============================================================================
